---- MODULE Spec2Model ----
(***************************************************************************)
(* Model of the WhatsApp report bot (TrashReportBot): the per-sender       *)
(* debounce buffer and processing lock, the conversation state machine,    *)
(* the global request queue with its worker, submitRequest and the retry   *)
(* scheduler.  The richest variant of the bot (vehicle reports, retries,   *)
(* per-type dedup) is the one modelled.                                    *)
(*                                                                         *)
(* The module holds several specifications over one set of variables:      *)
(*   SpecPass   handleMessage, debounce timers, processPendingMessages     *)
(*              and its lock, with the batch life cycle of the pass        *)
(*   SpecQueue  reports of two senders, the request queue, its worker,     *)
(*              submitRequest with every kind of result, a reply to a      *)
(*              parked question                                            *)
(*   SpecRetry  one job and the clock: failures, retry timers, the         *)
(*              terminal failure                                           *)
(*   SpecDedup  the same candidate reported twice while the first job      *)
(*              is queued, failed, waiting for a retry or done             *)
(*   SpecConv   one sender's conversation: reports that need a field       *)
(*              and the replies to the bot's questions                     *)
(*   SpecSupersede  a parked draft and batches that may supersede it       *)
(*   SpecFields     partial requests and the answers that complete them    *)
(*   SpecCandidates batches of one or two candidates of every kind         *)
(*   SpecCorrection address corrections at every moment of a job's life    *)
(*   SpecPost       successful submissions marked for posting on X         *)
(*   SpecPassFair   SpecPass with a fair event loop and passes that end    *)
(*   SpecPhotos     a vehicle draft with two photos and every outcome      *)
(*   SpecExtract    one call of extractRequests and its attempts           *)
(*   SpecHistory    the per-sender message history and its clean-up        *)
(*   SpecDebounce   the buffer with message contents and timer delays      *)
(*   SpecIndex      reports at an address already in the reports log       *)
(*   SpecWindow     candidates at one address inside the short window      *)
(*   SpecErrors     one job and every error text of the form               *)
(*   SpecReask      replies without a photo to the question for a photo    *)
(*   SpecStartup    the scan of recent messages when the process starts    *)
(*   SpecServer     POST /solicitud of the submission server, its lock     *)
(*                  per address and its map of recent submissions          *)
(* Time is counted in minutes; the debounce delays are in milliseconds     *)
(* and the waits of extractRequests in seconds.                            *)
(***************************************************************************)
EXTENDS Integers, Sequences, FiniteSets, TLC

\* ------------------------------------------------------------------ bounds
MaxMessages == 4      \* inbound messages over a run of SpecPass
MaxTime == 725        \* the clock stops here (minutes)
MaxPasses == 3        \* passes of _processPendingMessagesImpl over a run
MaxSendFailures == 1  \* chat.sendMessage throws at most this often over a run
MaxHistoryMessages == 3  \* messages handled over a run of SpecHistory
MaxHistoryTime == 122    \* the clock of SpecHistory stops here (minutes)
MaxDownload == 1         \* longest msg.downloadMedia() of SpecHistory (minutes)
MaxDebounceMessages == 3 \* messages received in SpecDebounce
MaxIndexPasses == 3      \* passes of SpecIndex
MaxWindowPasses == 2     \* passes of SpecWindow

\* ---------------------------------------------------------------- universe
Senders == {"s1", "s2"}

NoBatch == [id |-> 0, messages |-> <<>>, timer |-> 0]

Range(f) == {f[i] : i \in DOMAIN f}

VARIABLES
  \* ---- RequestQueue, submitRequest, RetryScheduler, DuplicateIndex
  requestQueue,             \* const requestQueue = []
  isProcessingQueue,        \* let isProcessingQueue = false
  workers,                  \* processQueue activations inside their loop
  submits,                  \* submitRequest calls suspended at an await
  scheduledRetries,         \* this.scheduledRetries: armed retry timers
  pendingInfoRequests,      \* this.pendingInfoRequests: Map senderId -> draft
  vehiclePatenteQueue,      \* Map senderId -> array of vehicle drafts
  recentlyQueuedAddresses,  \* Map key -> time queued (set of [key, at])
  reportsLog,               \* reports.csv, one record per line
  unlinked,                 \* photo files removed by fs.unlinkSync
  now,                      \* Date.now(), in minutes
  nextId,                   \* source of job, call, timer and reference ids
  \* history of the run, read by the properties only
  pushLog,                  \* job ids in the order of requestQueue.push
  workerLog,                \* job ids in the order the worker submitted them
  fetchLog,                 \* every request handed to fetch(API_URL/solicitud)
  failLog,                  \* every failure that reached scheduleRetry
  escapes,                  \* callers into which submitRequest threw
  guardHits,                \* processQueue() calls that met isProcessingQueue
  sendFailures,             \* number of chat.sendMessage calls that threw
  passLog,                  \* what each pass of _processPendingMessagesImpl did
  returnLog,                \* what each finished call of submitRequest did
  userMessageHistory,       \* Map senderId -> array of { photo, timestamp }
  extraction,               \* the call of extractRequests in progress
  handlers,                 \* handleMessage calls awaiting msg.downloadMedia()
  \* ---- PendingMessageBuffer and per-sender lock (SpecPass)
  pendingMessages,      \* Map senderId -> { messages, timer }; NoBatch = no entry
  debounceTimers,       \* armed setTimeout handles of handleMessage
  userProcessingLocks,  \* Map senderId -> lock promise (0 = no entry)
  calls,                \* activations of processPendingMessages, by call id
  microtasks,           \* promise continuations ready to run, in FIFO order
  nextMsg,              \* number of messages received so far
  \* ---- submission server, POST /solicitud (SpecServer)
  posts,                \* activations of the POST /solicitud handler, by id
  promises,             \* value each submissionPromise was resolved with
  submissionLocks,      \* Map normalized address -> promise (0 = no entry)
  recentSubmissions,    \* Map normalized address -> { timestamp, solicitudNumber }
  readyPosts            \* handlers whose awaited promise was resolved, FIFO

passVars == <<pendingMessages, debounceTimers, userProcessingLocks, calls,
              microtasks, nextMsg>>

submitVars == <<requestQueue, isProcessingQueue, workers, submits,
                scheduledRetries, pendingInfoRequests, vehiclePatenteQueue,
                recentlyQueuedAddresses, reportsLog, unlinked, now, nextId,
                pushLog, workerLog, fetchLog, failLog, escapes,
                guardHits, sendFailures, passLog, returnLog,
                userMessageHistory, extraction, handlers>>

serverVars == <<posts, promises, submissionLocks, recentSubmissions,
                readyPosts>>

vars == <<passVars, submitVars, serverVars>>

\* ------------------------------------------------------------------------
\* handleMessage, buffer part: get or create the sender's batch, clear the
\* timer the batch refers to, push the message, arm a new timer.
\* The message id doubles as the id of the timer it arms.  burst is a
\* history field: the messages that arrived while a timer of this sender
\* was still pending, i.e. faster than the debounce interval.
\* ------------------------------------------------------------------------
armedOf(s) == {t \in debounceTimers : t.sender = s}

clearTimeout(timers, handle) == {t \in timers : t.id # handle}

handleMessage(s) ==
  /\ microtasks = <<>>
  /\ nextMsg < MaxMessages
  /\ LET m == nextMsg + 1
         old == pendingMessages[s]
         pending == IF old = NoBatch
                      THEN [id |-> m, messages |-> <<>>, timer |-> 0]
                      ELSE old
         burst == UNION {t.burst : t \in armedOf(s)} \cup {m}
     IN /\ nextMsg' = m
        /\ pendingMessages' = [pendingMessages EXCEPT ![s] =
               [pending EXCEPT !.messages = Append(@, m), !.timer = m]]
        /\ debounceTimers' = clearTimeout(debounceTimers, pending.timer)
               \cup {[id |-> m, sender |-> s, burst |-> burst]}
  /\ UNCHANGED <<serverVars, userProcessingLocks, calls, microtasks, submitVars>>

\* ------------------------------------------------------------------------
\* _processPendingMessagesImpl seen from the buffer: what a pass does to the
\* sender's pendingMessages entry, and where it suspends.
\*   no entry / empty batch      -> delete, return at once        (404-408)
\*   "keepSync"   awaiting photos, none came: return at once,
\*                entry kept                                      (563-564)
\*   "deleteThenAwait"  entry deleted, then await submitRequest   (475-479)
\*   "await"      first await reached with the entry in place     (491, 568,
\*                582, 785)
\* The result is the call's new pc and fields and the sender's new entry.
\* ------------------------------------------------------------------------
ImplPaths == {"keepSync", "deleteThenAwait", "await"}

processPendingMessagesImpl(s, path) ==
  LET pending == pendingMessages[s] IN
  IF pending = NoBatch \/ Len(pending.messages) = 0
    THEN [pc |-> "finally", entry |-> NoBatch, batchId |-> 0,
          batch |-> <<>>, deleted |-> TRUE]
    ELSE [pc |-> IF path = "keepSync" THEN "finally" ELSE "running",
          entry |-> IF path = "deleteThenAwait" THEN NoBatch ELSE pending,
          batchId |-> pending.id,
          batch |-> pending.messages,
          deleted |-> (path = "deleteThenAwait")]

\* processPendingMessages from its lock acquisition on (lines 389-395): a new
\* lock promise (named by the call id) replaces the sender's map entry and the
\* pass starts; a pass that returned at once leaves its continuation (the
\* finally block) in the microtask queue.
acquireAndRun(c, s, burst, path, base) ==
  LET r == processPendingMessagesImpl(s, path)
      rec == [sender |-> s, pc |-> r.pc, awaited |-> 0, burst |-> burst,
              batchId |-> r.batchId, batch |-> r.batch, deleted |-> r.deleted]
  IN /\ userProcessingLocks' = [userProcessingLocks EXCEPT ![s] = c]
     /\ pendingMessages' = [pendingMessages EXCEPT ![s] = r.entry]
     /\ calls' = IF c > Len(calls) THEN Append(calls, rec)
                                   ELSE [calls EXCEPT ![c] = rec]
     /\ microtasks' = IF r.pc = "finally" THEN Append(base, c) ELSE base

\* The debounce timer fires: processPendingMessages(senderId) is called
\* (lines 372-374, 381-395).  With a lock entry present the call awaits it.
processPendingMessages(t, path) ==
  /\ microtasks = <<>>
  /\ t \in debounceTimers
  /\ debounceTimers' = debounceTimers \ {t}
  /\ LET s == t.sender
         c == Len(calls) + 1
         existingLock == userProcessingLocks[s]
     IN IF existingLock # 0
          THEN /\ calls' = Append(calls,
                     [sender |-> s, pc |-> "awaitLock", awaited |-> existingLock,
                      burst |-> t.burst, batchId |-> 0, batch |-> <<>>,
                      deleted |-> FALSE])
               /\ UNCHANGED <<serverVars, userProcessingLocks, pendingMessages, microtasks>>
          ELSE acquireAndRun(c, s, t.burst, path, microtasks)
  /\ UNCHANGED <<serverVars, nextMsg, submitVars>>

\* The awaited lock was resolved: the call goes on without looking at the map
\* again (lines 386-395).
processPendingMessages_afterLock(path) ==
  /\ microtasks # <<>>
  /\ LET c == Head(microtasks) IN
       /\ calls[c].pc = "awaitLock"
       /\ acquireAndRun(c, calls[c].sender, calls[c].burst, path, Tail(microtasks))
  /\ UNCHANGED <<serverVars, debounceTimers, nextMsg, submitVars>>

\* pendingMessages.delete(senderId) in the middle of a pass, followed by a
\* further await (lines 571-576, 613-630, 716-721).
processPendingMessagesImpl_delete(c) ==
  /\ microtasks = <<>>
  /\ c \in DOMAIN calls
  /\ calls[c].pc = "running" /\ ~calls[c].deleted
  /\ pendingMessages' = [pendingMessages EXCEPT ![calls[c].sender] = NoBatch]
  /\ calls' = [calls EXCEPT ![c].deleted = TRUE]
  /\ UNCHANGED <<serverVars, debounceTimers, userProcessingLocks, microtasks, nextMsg, submitVars>>

\* The pass returns from its last await.
\*   "delete"        the entry is deleted on the way out (517, 820, 890, 1344)
\*   "keep"          the entry stays (491-493)
\*   "keepNullTimer" pending.timer = null on the batch object the pass holds,
\*                   the entry stays (885-887)
ImplReturns == {"delete", "keep", "keepNullTimer"}

processPendingMessagesImpl_return(c, how) ==
  /\ microtasks = <<>>
  /\ c \in DOMAIN calls
  /\ calls[c].pc = "running"
  /\ calls[c].deleted => how = "keep"
  /\ LET s == calls[c].sender
         entry == pendingMessages[s]
     IN pendingMessages' = [pendingMessages EXCEPT ![s] =
          CASE how = "delete" -> NoBatch
            [] how = "keepNullTimer" /\ entry.id = calls[c].batchId /\ entry # NoBatch
                 -> [entry EXCEPT !.timer = 0]
            [] OTHER -> entry]
  /\ calls' = [calls EXCEPT ![c].pc = "finally"]
  /\ microtasks' = Append(microtasks, c)
  /\ UNCHANGED <<serverVars, debounceTimers, userProcessingLocks, nextMsg, submitVars>>

\* finally { userProcessingLocks.delete(senderId); releaseLock(); }
\* (lines 396-400): the map entry is deleted whichever lock it holds, and
\* the calls awaiting this call's promise become ready in the order in which
\* they started to wait.
RECURSIVE SetToSeq(_)
SetToSeq(S) ==
  IF S = {} THEN <<>>
  ELSE LET x == CHOOSE y \in S : \A z \in S : y <= z
       IN <<x>> \o SetToSeq(S \ {x})

processPendingMessages_noFinally ==
  /\ microtasks # <<>>
  /\ LET c == Head(microtasks)
     IN /\ calls[c].pc = "finally"
        /\ calls' = [calls EXCEPT ![c].pc = "done"]
        /\ microtasks' = Tail(microtasks)
  /\ UNCHANGED <<serverVars, userProcessingLocks, pendingMessages, debounceTimers, nextMsg,
                 submitVars>>

processPendingMessages_finally ==
  /\ microtasks # <<>>
  /\ LET c == Head(microtasks)
         waiters == {w \in DOMAIN calls :
                       calls[w].pc = "awaitLock" /\ calls[w].awaited = c}
     IN /\ calls[c].pc = "finally"
        /\ userProcessingLocks' = [userProcessingLocks EXCEPT ![calls[c].sender] = 0]
        /\ calls' = [calls EXCEPT ![c].pc = "done"]
        /\ microtasks' = Tail(microtasks) \o SetToSeq(waiters)
  /\ UNCHANGED <<serverVars, pendingMessages, debounceTimers, nextMsg, submitVars>>


\* ========================================================================
\* Requests, results of the external submitter, errors
\* ========================================================================
Null == ""          \* null / undefined of a string field
NoPhoto == 0        \* null of a photo path

\* A request / draft object.  id is the identity of the JavaScript object
\* family ({...request} copies keep it); confirmed is a history field: the
\* sender answered the patente confirmation question affirmatively.
NoRequest ==
  [id |-> 0, senderId |-> Null, address |-> Null, reportType |-> Null,
   schedule |-> Null, situationType |-> Null, patente |-> Null,
   infractionTime |-> Null, photo |-> NoPhoto, photos |-> <<>>,
   postToX |-> FALSE, retryCount |-> 0, awaitingField |-> Null,
   awaitingQuestion |-> Null, missingField |-> Null, confirmed |-> FALSE]

\* result.error texts of the submitter, one per branch of submitRequest's
\* error analysis (lines 1924-2006), and the branch each one takes.
Errors == {"login failed", "Navigation timeout of 30000 ms exceeded",
           "falta la foto", "falta el horario", "dirección inválida",
           "campo requerido", "radio sin seleccionar", "button not clickable",
           "error interno"}

isAccessError(error) ==
  error \in {"login failed", "Navigation timeout of 30000 ms exceeded"}

\* fieldNeeded of the recoverable branches; Null when the error is not one
\* the bot turns into a question.
fieldNeeded(error) ==
  CASE error = "falta la foto" -> "photo"
    [] error = "falta el horario" -> "schedule"
    [] error = "dirección inválida" -> "address"
    [] error = "campo requerido" -> "description"
    [] OTHER -> Null

questionToAsk(error) ==
  CASE error = "falta la foto" -> "¿Podés mandarme una foto del problema?"
    [] error = "falta el horario" -> "¿Qué días y horarios ocurre el problema?"
    [] error = "dirección inválida" -> "¿Cuál es la dirección exacta?"
    [] error = "campo requerido" -> "¿Podés darme más detalles sobre el problema?"
    [] OTHER -> Null

\* "radio sin seleccionar" / "opciones" and the form navigation errors:
\* retried automatically.
isInternalFormError(error) ==
  error \in {"radio sin seleccionar", "button not clickable"}

\* What fetch + response.json() can produce.
Result(success, hasNumber, needsInfo, field, error, throws) ==
  [success |-> success, hasNumber |-> hasNumber, needsInfo |-> needsInfo,
   field |-> field, error |-> error, throws |-> throws, x |-> "success"]

\* What postToX can do when submitRequest awaits it: resolve with
\* { success: true }, { skipped: true } or { success: false, error }, or
\* reject.  Posting(result, x): the submitter's result together with the
\* poster's behaviour x in the same call.
XResults == {"success", "skipped", "failure", "throws"}

Posting(result, x) == [result EXCEPT !.x = x]

Results ==
  {Result(TRUE, TRUE, FALSE, Null, Null, FALSE),
   Result(TRUE, FALSE, FALSE, Null, Null, FALSE),
   Result(FALSE, FALSE, FALSE, Null, Null, TRUE)}
  \cup {Result(FALSE, FALSE, TRUE, f, Null, FALSE) : f \in {"schedule", "unknown"}}
  \cup {Result(FALSE, FALSE, FALSE, Null, e, FALSE) : e \in Errors \cup {Null}}

\* ========================================================================
\* RetryScheduler
\* ========================================================================
MaxRetries == 3
retryDelays == <<5, 50, 500>>   \* minutes

\* scheduleRetry(request): the timers it arms (none once retryCount >= 3,
\* where notifyFinalFailure is called instead).  tid names the timer.
scheduleRetry_twice(request, tid) ==
  IF request.retryCount >= 2
    THEN {}
    ELSE {[id |-> tid, request |-> request, armed |-> now,
           due |-> now + retryDelays[request.retryCount + 1]]}

scheduleRetry(request, tid) ==
  IF request.retryCount >= MaxRetries
    THEN {}
    ELSE {[id |-> tid, request |-> request, armed |-> now,
           due |-> now + retryDelays[request.retryCount + 1]]}

\* notifyFinalFailure(request): the files it unlinks (request.photo only).
notifyFinalFailure(request) ==
  IF request.photo # NoPhoto THEN {request.photo} ELSE {}

\* ========================================================================
\* DuplicateIndex: the persisted log (reports.csv) and the short window
\* ========================================================================
QUEUE_DEDUP_WINDOW_MS == 5     \* minutes
twelveHours == 720             \* minutes

VEHICLE == "vehiculo_mal_estacionado"

\* String.prototype.toLowerCase and normalizeAddressForComparison on the
\* addresses used here (lower-casing, accent stripping, prefix stripping,
\* "street number" extraction).
toLowerCase(a) ==
  CASE a = "Pasteur 415" -> "pasteur 415"
    [] a = "Perón 1200" -> "perón 1200"
    [] a = "Corrientes 1200" -> "corrientes 1200"
    [] a = "Callao 500" -> "callao 500"
    [] a = "Pasteur 451" -> "pasteur 451"
    [] OTHER -> a

normalizeAddressForComparison(a) ==
  CASE a \in {"Pasteur 415", "pasteur 415"} -> "pasteur 415"
    [] a \in {"Perón 1200", "perón 1200"} -> "peron 1200"
    [] a \in {"Corrientes 1200", "corrientes 1200"} -> "corrientes 1200"
    [] a \in {"Callao 500", "callao 500"} -> "callao 500"
    [] a \in {"Pasteur 451", "pasteur 451"} -> "pasteur 451"
    [] OTHER -> a

toUpperCase(p) ==
  CASE p = "ab123cd" -> "AB123CD"
    [] OTHER -> p

\* addrKey of the push loop: normalized address, plus the plate for a
\* vehicle report that has one.  The pair stands for the string
\* `${addr}|${PLATE}` (<<addr, Null>> for the bare address).
addrKey(req) ==
  <<normalizeAddressForComparison(req.address),
    IF req.reportType = VEHICLE /\ req.patente # Null
      THEN toUpperCase(req.patente) ELSE Null>>

isRecentlyQueued_never(key) == FALSE

isRecentlyQueued(key) ==
  \E e \in recentlyQueuedAddresses :
     e.key = key /\ now - e.at < QUEUE_DEDUP_WINDOW_MS

\* clearFromDedup(address): the key it deletes is address.toLowerCase().
clearFromDedup(M, address) == {e \in M : e.key # <<toLowerCase(address), Null>>}

\* One line of reports.csv as written at line 1837.
csvLine(solicitudNumber, request) ==
  [solicitudNumber |-> solicitudNumber,
   address |-> request.address,
   reportType |-> request.reportType,
   patente |-> IF request.reportType = VEHICLE /\ request.patente # Null
                 THEN toUpperCase(request.patente) ELSE Null,
   timestamp |-> now]

\* getProcessedSolicitudes(): the Map built from the log, as the sequence of
\* its entries in insertion order; for a key seen again the entry is
\* replaced only by a strictly later timestamp.
processedKey(line) ==
  <<normalizeAddressForComparison(line.address), line.reportType,
    IF line.reportType = VEHICLE /\ line.patente # Null
      THEN toUpperCase(line.patente) ELSE Null>>

RECURSIVE processedOf(_, _)
processedOf(lines, processed) ==
  IF lines = <<>> THEN processed
  ELSE LET line == Head(lines)
           key == processedKey(line)
           entry == [key |-> key, timestamp |-> line.timestamp,
                     solicitudNumber |-> line.solicitudNumber]
           at == {i \in DOMAIN processed : processed[i].key = key}
       IN processedOf(Tail(lines),
            IF at = {} THEN Append(processed, entry)
            ELSE LET i == CHOOSE j \in at : TRUE
                 IN IF processed[i].timestamp < line.timestamp
                      THEN [processed EXCEPT ![i] = entry]
                      ELSE processed)

getProcessedSolicitudes == processedOf(reportsLog, <<>>)

NoEntry == [key |-> <<>>, timestamp |-> -1, solicitudNumber |-> 0]

\* isRecentDuplicate: the first entry of the map, in insertion order, with
\* the candidate's normalized address and type (and no differing plate) that
\* is less than twelve hours old.
isRecentDuplicate(address, reportType, processedMap, patente) ==
  LET hits == {i \in DOMAIN processedMap :
                 /\ processedMap[i].key[1] = normalizeAddressForComparison(address)
                 /\ processedMap[i].key[2] = reportType
                 /\ ~(/\ reportType = VEHICLE
                      /\ patente # Null
                      /\ processedMap[i].key[3] # Null
                      /\ toUpperCase(patente) # toUpperCase(processedMap[i].key[3]))
                 /\ processedMap[i].timestamp > now - twelveHours}
  IN IF hits = {} THEN NoEntry
     ELSE processedMap[CHOOSE i \in hits : \A j \in hits : i <= j]

\* ========================================================================
\* submitRequest
\* ========================================================================
photosToSend(request) ==
  IF Len(request.photos) > 0 THEN request.photos
  ELSE IF request.photo # NoPhoto THEN <<request.photo>> ELSE <<>>

\* A call of submitRequest suspended at its first await: the send of the
\* two-photos question ("precheck", lines 1782-1808) or fetch ("fetch").
\* caller is "worker", "retry" or "pass"; worker names the processQueue
\* activation awaiting the call, then what the awaiting pass does afterwards.
startSubmit(sid, request, caller, worker, then) ==
  [id |-> sid, request |-> request, caller |-> caller, worker |-> worker,
   then |-> then,
   pc |-> IF request.reportType = VEHICLE /\ Len(photosToSend(request)) < 2
            THEN "precheck" ELSE "fetch"]

\* The branch of submitRequest taken for a result (lines 1827-2035).
submitBranch(result) ==
  CASE result.throws -> "throw"
    [] result.success /\ result.hasNumber -> "success"
    [] result.success -> "successNoNumber"
    [] result.needsInfo -> "needsInfo"
    [] isAccessError(result.error) -> "access"
    [] fieldNeeded(result.error) # Null -> "recover"
    [] isInternalFormError(result.error) -> "internal"
    [] OTHER -> "generic"

\* The state parked by the two-photos check: a new object without photo and
\* without retryCount.
precheckState(request) ==
  [NoRequest EXCEPT !.id = request.id, !.senderId = request.senderId,
                    !.address = request.address,
                    !.photos = photosToSend(request),
                    !.reportType = VEHICLE,
                    !.patente = request.patente,
                    !.infractionTime = request.infractionTime,
                    !.awaitingField = "photo",
                    !.postToX = request.postToX,
                    !.confirmed = request.confirmed]

\* Whether what postToX did leaves the try block of lines 1847-1863 (and of
\* 1882-1898): the three kinds of result are logged, a rejection is caught
\* and logged.
postToX_unguarded(x) == x = "throws"

postToX_escapes(x) == FALSE

\* Everything one call does from its first await to its end, given what the
\* submitter answered and whether chat.sendMessage throws in the try block
\* (sendThrows) and in the catch block (catchThrows).
\*   csv      a line is appended to reports.csv
\*   state    the entry set in pendingInfoRequests (NoRequest: none)
\*   unlink   photo files removed by the call itself
\*   clear    clearFromDedup(address) is called
\*   retries  number of scheduleRetry(request) calls
\*   escaped  the call rejects: the exception reaches the caller
\*   thrown   number of chat.sendMessage calls that threw
\*   caught   the catch block of line 2036 ran
\*   notified the message of the branch was sent to the chat
\*   posted   postToX was called
submitOutcome(pc, request, result, sendThrows, catchThrows) ==
  LET b == IF pc = "precheck" THEN "precheck" ELSE submitBranch(result)
      rc == request.retryCount
      tryRetry == b \in {"access", "internal"}
      trySend == b # "throw" /\ ~(b = "access" /\ rc >= MaxRetries)
      posting == /\ b \in {"success", "successNoNumber"}
                 /\ ~sendThrows /\ request.postToX
      caught == \/ b = "throw"
                \/ trySend /\ sendThrows
                \/ posting /\ postToX_escapes(result.x)
      allPhotos == IF Len(request.photos) > 0 THEN Range(request.photos)
                   ELSE IF request.photo # NoPhoto THEN {request.photo} ELSE {}
      onePhoto == IF request.photo # NoPhoto THEN {request.photo} ELSE {}
  IN [branch |-> b,
      caught |-> caught,
      notified |-> (trySend /\ ~sendThrows),
      posted |-> posting,
      csv |-> (b = "success"),
      state |-> CASE caught -> NoRequest
                  [] b = "precheck" -> precheckState(request)
                  [] b = "needsInfo" ->
                       [request EXCEPT !.awaitingField = result.field,
                                       !.awaitingQuestion = "question"]
                  [] b = "recover" ->
                       [request EXCEPT !.awaitingField = fieldNeeded(result.error),
                                       !.awaitingQuestion = questionToAsk(result.error)]
                  [] OTHER -> NoRequest,
      unlink |-> CASE caught -> {}
                   [] b = "success" -> allPhotos
                   [] b \in {"successNoNumber", "generic"} -> onePhoto
                   [] OTHER -> {},
      clear |-> (tryRetry \/ caught),
      retries |-> (IF tryRetry THEN 1 ELSE 0) + (IF caught THEN 1 ELSE 0),
      escaped |-> (caught /\ rc < MaxRetries /\ catchThrows),
      thrown |-> (IF trySend /\ sendThrows THEN 1 ELSE 0)
                   + (IF caught /\ rc < MaxRetries /\ catchThrows THEN 1 ELSE 0)]

\* An id no element of S carries: larger than all of them.
freeId(S) ==
  IF S = {} THEN 1
  ELSE 1 + CHOOSE n \in {x.id : x \in S} : \A x \in S : x.id <= n

\* The entry of fetchLog a starting call adds (none for the two-photos check).
fetchLogAfter(sub) ==
  IF sub.pc = "fetch"
    THEN fetchLog \cup {[request |-> sub.request, caller |-> sub.caller]}
    ELSE fetchLog

\* The state set for the next vehicle of the sender's queue after the
\* confirmed one was submitted (lines 731-737).
nextVehicleState(nextVehicle) ==
  [nextVehicle EXCEPT !.awaitingField =
     IF nextVehicle.missingField # Null THEN nextVehicle.missingField
     ELSE "patenteConfirmation"]

\* A call of submitRequest runs from its first await to its end, and the
\* code awaiting it goes on: the worker loop (lines 1621-1628), or the pass
\* that answered a patente confirmation (lines 723-769).
submitRequest_return(c, result, sendThrows, catchThrows) ==
  /\ microtasks = <<>>
  /\ c \in submits
  /\ LET request == c.request
         s == request.senderId
         o == submitOutcome(c.pc, request, result, sendThrows, catchThrows)
         tbase == freeId(scheduledRetries)
         timers == UNION {scheduleRetry(request, tbase + k) : k \in 0..(o.retries - 1)}
         final == o.retries > 0 /\ timers = {}
         afterSubmit == IF o.state # NoRequest
                          THEN [pendingInfoRequests EXCEPT ![s] = o.state]
                          ELSE pendingInfoRequests
         vehicles == vehiclePatenteQueue[s]
         continue == /\ c.caller = "pass" /\ c.then = "vehicleNext"
                     /\ ~o.escaped /\ vehicles # <<>>
         w == CHOOSE x \in workers : x.id = c.worker
     IN /\ sendFailures + o.thrown <= MaxSendFailures
        /\ sendFailures' = sendFailures + o.thrown
        /\ submits' = submits \ {c}
        /\ reportsLog' = IF o.csv
                           THEN Append(reportsLog, csvLine(Len(reportsLog) + 1, request))
                           ELSE reportsLog
        /\ recentlyQueuedAddresses' =
             IF o.clear THEN clearFromDedup(recentlyQueuedAddresses, request.address)
             ELSE recentlyQueuedAddresses
        /\ scheduledRetries' = scheduledRetries \cup timers
        /\ failLog' = IF o.retries = 0 THEN failLog
                       ELSE failLog \cup
                              {[job |-> request.id, retryCount |-> request.retryCount,
                                final |-> final]}
        /\ unlinked' = unlinked \cup o.unlink
                         \cup (IF final THEN notifyFinalFailure(request) ELSE {})
        /\ escapes' = IF o.escaped THEN escapes \cup {c.caller} ELSE escapes
        /\ vehiclePatenteQueue' =
             IF continue THEN [vehiclePatenteQueue EXCEPT ![s] = Tail(vehicles)]
             ELSE vehiclePatenteQueue
        /\ pendingInfoRequests' =
             IF continue /\ Tail(vehicles) # <<>>
               THEN [afterSubmit EXCEPT ![s] = nextVehicleState(Head(Tail(vehicles)))]
               ELSE afterSubmit
        /\ returnLog' = returnLog \cup
             {[request |-> request, caller |-> c.caller, branch |-> o.branch,
               caught |-> o.caught, escaped |-> o.escaped,
               state |-> o.state, unlink |-> o.unlink, timers |-> timers,
               field |-> result.field, parked |-> pendingInfoRequests'[s],
               notified |-> o.notified, posted |-> o.posted, x |-> result.x,
               final |-> final, csv |-> o.csv,
               cleared |-> IF o.clear THEN <<toLowerCase(request.address), Null>>
                           ELSE <<Null, Null>>,
               keyLeft |-> \E e \in recentlyQueuedAddresses' :
                              e.key = addrKey(request),
               queued |-> \E i \in DOMAIN requestQueue :
                             requestQueue[i].id = request.id,
               after |-> Cardinality(passLog)]}
        /\ IF c.caller # "worker"
             THEN UNCHANGED <<serverVars, workers, isProcessingQueue>>
             ELSE IF o.escaped
               THEN workers' = workers \ {w} /\ UNCHANGED isProcessingQueue
               ELSE IF Len(requestQueue) > 0
                 THEN /\ workers' = (workers \ {w}) \cup {[w EXCEPT !.pc = "delay"]}
                      /\ UNCHANGED isProcessingQueue
                 ELSE /\ workers' = workers \ {w}
                      /\ isProcessingQueue' = FALSE
  /\ UNCHANGED <<serverVars, requestQueue, now, nextId, pushLog, workerLog, fetchLog,
                 guardHits, passLog, userMessageHistory, extraction,
                 handlers,                  passVars>>

\* ========================================================================
\* RequestQueue worker
\* ========================================================================
\* processQueue() called with queue q: the guard, and for a call that
\* passes it the flag, the first shift and the submitRequest it awaits.
processQueue_reentrant(q) ==
  IF Len(q) = 0
    THEN [started |-> FALSE, queue |-> q, request |-> NoRequest]
    ELSE [started |-> TRUE, queue |-> Tail(q), request |-> Head(q)]

processQueue(q) ==
  IF isProcessingQueue \/ Len(q) = 0
    THEN [started |-> FALSE, queue |-> q, request |-> NoRequest]
    ELSE [started |-> TRUE, queue |-> Tail(q), request |-> Head(q)]

\* await this.delay(2000) is over: the while condition is tested again.
processQueue_loop(w) ==
  /\ microtasks = <<>>
  /\ w \in workers
  /\ w.pc = "delay"
  /\ IF Len(requestQueue) > 0
       THEN LET sub == startSubmit(freeId(submits), Head(requestQueue),
                                   "worker", w.id, "")
            IN /\ requestQueue' = Tail(requestQueue)
               /\ workers' = (workers \ {w}) \cup {[w EXCEPT !.pc = "submit"]}
               /\ submits' = submits \cup {sub}
               /\ fetchLog' = fetchLogAfter(sub)
               /\ workerLog' = Append(workerLog, Head(requestQueue).id)
               /\ UNCHANGED isProcessingQueue
       ELSE /\ workers' = workers \ {w}
            /\ isProcessingQueue' = FALSE
            /\ UNCHANGED <<serverVars, requestQueue, submits, fetchLog, workerLog>>
  /\ UNCHANGED <<serverVars, scheduledRetries, pendingInfoRequests, vehiclePatenteQueue,
                 recentlyQueuedAddresses, reportsLog, unlinked, now, nextId,
                 pushLog, failLog, escapes, guardHits, sendFailures,
                 passLog, returnLog, userMessageHistory, extraction,
                 handlers,                  passVars>>

\* A retry timer fires (lines 176-180): the entry leaves scheduledRetries
\* and submitRequest is called with retryCount + 1.
scheduleRetry_fire(t) ==
  /\ microtasks = <<>>
  /\ t \in scheduledRetries
  /\ t.due <= now
  /\ LET sub == startSubmit(freeId(submits),
                  [t.request EXCEPT !.retryCount = t.request.retryCount + 1],
                  "retry", 0, "")
     IN /\ scheduledRetries' = scheduledRetries \ {t}
        /\ submits' = submits \cup {sub}
        /\ fetchLog' = fetchLogAfter(sub)
  /\ UNCHANGED <<serverVars, requestQueue, isProcessingQueue, workers, pendingInfoRequests,
                 vehiclePatenteQueue, recentlyQueuedAddresses, reportsLog,
                 unlinked, now, nextId, pushLog, workerLog, failLog, escapes,
                 guardHits, sendFailures,
                 passLog, returnLog, userMessageHistory, extraction,
                 handlers,                  passVars>>

\* Time passes, never beyond the expiry of an armed retry timer.  The clock
\* moves to the next retry that is due, or by the short window when an
\* entry of it is still blocking.
TimerSteps == {t.due - now : t \in scheduledRetries}

WindowSteps ==
  {QUEUE_DEDUP_WINDOW_MS : e \in {x \in recentlyQueuedAddresses :
                                    now - x.at < QUEUE_DEDUP_WINDOW_MS}}

Tick(d) ==
  /\ microtasks = <<>>
  /\ d > 0
  /\ now + d <= MaxTime
  /\ \A t \in scheduledRetries : now + d <= t.due
  /\ now' = now + d
  /\ UNCHANGED <<serverVars, requestQueue, isProcessingQueue, workers, submits,
                 scheduledRetries, pendingInfoRequests, vehiclePatenteQueue,
                 recentlyQueuedAddresses, reportsLog, unlinked, nextId, pushLog,
                 workerLog, fetchLog, failLog, escapes, guardHits,
                 sendFailures, passLog, returnLog, userMessageHistory, extraction,
                 handlers,                  passVars>>

\* ========================================================================
\* _processPendingMessagesImpl: the conversation state machine
\* ========================================================================
\* Message texts, and what the regular expressions and string tests of the
\* pass make of each of them.
Texts == {"si", "AB123CD", "14:30", "de lunes a viernes de 10 a 18",
          "los manteros estan de 10 a 18", "Pasteur 415",
          "hay basura en pasteur 415", "Hay basura en Perón 1200",
          "Manteros en Pasteur 415", "Auto mal estacionado en Pasteur 415",
          "Basura en Corrientes 1200", "Callao 500", "Basura en Callao 500",
          "es un puesto de diarios", "no, es Pasteur 451", "hay manteros",
          "ya la mandé", "ya está"}

\* /\b(\d+|\w+\.?\s+\w+)\s+\d{2,5}\b|^\s*\w+\.?\s+\w*\s+\d{2,5}/i
addressPattern(text) ==
  text \in {"de lunes a viernes de 10 a 18", "los manteros estan de 10 a 18",
            "hay basura en pasteur 415", "Manteros en Pasteur 415",
            "Auto mal estacionado en Pasteur 415",
            "Basura en Corrientes 1200", "Basura en Callao 500",
            "no, es Pasteur 451"}

\* /basura|residuos|contenedor|barrido|obstruc|ocupaci|mantero|puesto|...
newReportPatterns(text) ==
  text \in {"los manteros estan de 10 a 18", "hay basura en pasteur 415",
            "Hay basura en Perón 1200", "Manteros en Pasteur 415",
            "Auto mal estacionado en Pasteur 415",
            "Basura en Corrientes 1200", "Basura en Callao 500",
            "es un puesto de diarios", "hay manteros"}

\* messageText.includes(token) for the first token of a pending address
includes(text, token) ==
  <<text, token>> \in {<<"Pasteur 415", "pasteur">>,
                       <<"hay basura en pasteur 415", "pasteur">>,
                       <<"Hay basura en Perón 1200", "perón">>,
                       <<"Manteros en Pasteur 415", "pasteur">>,
                       <<"Auto mal estacionado en Pasteur 415", "pasteur">>,
                       <<"Basura en Corrientes 1200", "corrientes">>,
                       <<"Callao 500", "callao">>,
                       <<"Basura en Callao 500", "callao">>,
                       <<"no, es Pasteur 451", "pasteur">>}

firstToken(address) ==
  CASE address \in {"Pasteur 415", "pasteur 415", "Pasteur 451"} -> "pasteur"
    [] address \in {"Perón 1200"} -> "perón"
    [] address = "Corrientes 1200" -> "corrientes"
    [] address = "Callao 500" -> "callao"
    [] OTHER -> address

\* /\d+/
hasDigits(text) ==
  text \notin {Null, "si", "es un puesto de diarios", "hay manteros",
               "ya la mandé", "ya está"}

\* ------------------------------------------------------------------------
\* handleMessage, smart debounce (339-374): the delay of the timer armed
\* after the push is computed over the messages of the sender's entry.
\* Here the entry holds the message objects (text, photo) and the timer
\* record carries the delay it was armed with.
\* ------------------------------------------------------------------------
DEBOUNCE_MS == 3000

DEBOUNCE_PHOTO_MS == 8000

DebounceTexts == {Null, "si", "Pasteur 415"}

DebouncePhotos == {NoPhoto, 1}

\* pending.messages.some(m => m.photo)
hasPhotos(messages) ==
  \E i \in DOMAIN messages : messages[i].photo # NoPhoto

\* pending.messages.some(m => m.text && /\d+/.test(m.text))
hasTextWithNumbers(messages) ==
  \E i \in DOMAIN messages :
     messages[i].text # Null /\ hasDigits(messages[i].text)

debounceTime_anyPhoto(messages) ==
  IF hasPhotos(messages) THEN DEBOUNCE_PHOTO_MS ELSE DEBOUNCE_MS

debounceTime(messages) ==
  IF hasPhotos(messages) /\ ~hasTextWithNumbers(messages)
    THEN DEBOUNCE_PHOTO_MS
    ELSE DEBOUNCE_MS

handleMessage_debounce(s, text, photo) ==
  /\ microtasks = <<>>
  /\ nextMsg < MaxDebounceMessages
  /\ LET m == nextMsg + 1
         old == pendingMessages[s]
         pending == IF old = NoBatch
                      THEN [id |-> m, messages |-> <<>>, timer |-> 0]
                      ELSE old
         messages == Append(pending.messages,
                            [id |-> m, text |-> text, photo |-> photo])
         burst == UNION {t.burst : t \in armedOf(s)} \cup {m}
     IN /\ nextMsg' = m
        /\ pendingMessages' = [pendingMessages EXCEPT ![s] =
               [pending EXCEPT !.messages = messages, !.timer = m]]
        /\ debounceTimers' = clearTimeout(debounceTimers, pending.timer)
               \cup {[id |-> m, sender |-> s, burst |-> burst,
                      delay |-> debounceTime(messages)]}
  /\ UNCHANGED <<serverVars, userProcessingLocks, calls, microtasks, submitVars>>

\* text.match(/([A-ZÁÉÍÓÚÑa-záéíóúñ\.\s]+)\s+(\d+)/): `${match[1].trim()}
\* ${match[2]}`, Null without a match
partialAddressOf(text) ==
  CASE text \in {Null, "si", "AB123CD", "14:30", "es un puesto de diarios",
                 "hay manteros", "ya la mandé", "ya está"} -> Null
    [] text = "de lunes a viernes de 10 a 18" -> "de lunes a viernes de 10"
    [] text = "los manteros estan de 10 a 18" -> "los manteros estan de 10"
    [] text = "no, es Pasteur 451" -> "es Pasteur 451"
    [] OTHER -> text

\* alreadySentPhrases (line 455): /ya (la |lo |te |se )?(mand[eéó]|envi[eéó])|
\* se envi[oó]|est[aá] (arriba|antes|ah[ií])|.../i
alreadySent(text) == text \in {"ya la mandé"}

\* /ya|envi|mand|arriba|antes/i (line 483)
saysSent_never(text) == FALSE

saysSent(text) == text \in {"ya la mandé", "ya está"}

\* [...userHistory].reverse().find(m => m.photo && fs.existsSync(m.photo))
\* (lines 462-463): the most recent photo of the sender's history whose
\* file has not been unlinked.
historyPhoto(s) ==
  LET userHistory == userMessageHistory[s]
      found == {i \in DOMAIN userHistory :
                  /\ userHistory[i].photo # NoPhoto
                  /\ userHistory[i].photo \notin unlinked}
  IN IF found = {} THEN NoPhoto
     ELSE userHistory[CHOOSE i \in found : \A j \in found : j <= i].photo

\* /^(si|sí|ok|dale|correcto|correcta|bien|esa|sep|sip|yes|y)$/i
confirmPhrases(text) == text \in {"si"}

\* text.toUpperCase().match(/[A-Z0-9]{6,7}/), else the upper-cased text
\* without blanks cut to 7 characters
patenteOf(text) ==
  CASE text = "si" -> "SI"
    [] text = "AB123CD" -> "AB123CD"
    [] text = "14:30" -> "14:30"
    [] text = "de lunes a viernes de 10 a 18" -> "VIERNES"
    [] text = "los manteros estan de 10 a 18" -> "MANTERO"
    [] text = "Pasteur 415" -> "PASTEUR"
    [] text \in {"hay basura en pasteur 415", "Hay basura en Perón 1200"} -> "BASURA"
    [] text = "Manteros en Pasteur 415" -> "MANTERO"
    [] text = "Auto mal estacionado en Pasteur 415" -> "ESTACIO"
    [] text \in {"Basura en Corrientes 1200", "Basura en Callao 500"} -> "BASURA"
    [] text = "Callao 500" -> "CALLAO"
    [] text = "es un puesto de diarios" -> "PUESTO"
    [] text = "hay manteros" -> "MANTERO"
    [] text = "no, es Pasteur 451" -> "PASTEUR"
    [] text = "ya la mandé" -> "YALAMAN"
    [] text = "ya está" -> "YAESTÁ"
    [] OTHER -> text

\* the correction branch of patenteConfirmation: a match, or a cleaned text
\* of at least 6 characters; Null leaves the patente as it is
correctedPatente_none(text) == Null

correctedPatente(text) ==
  CASE text \in {"si", "14:30"} -> Null
    [] OTHER -> patenteOf(text)

\* text.match(/(\d{1,2})[:\.]?(\d{2})?/) -> HH:MM, else the raw text
infractionTimeOf(text) ==
  CASE text = "AB123CD" -> "12:00"
    [] text = "14:30" -> "14:30"
    [] text = "de lunes a viernes de 10 a 18" -> "10:00"
    [] text = "los manteros estan de 10 a 18" -> "10:00"
    [] text \in {"Pasteur 415", "hay basura en pasteur 415",
                 "Manteros en Pasteur 415",
                 "Auto mal estacionado en Pasteur 415"} -> "41:00"
    [] text \in {"Hay basura en Perón 1200", "Basura en Corrientes 1200"} -> "12:00"
    [] text \in {"Callao 500", "Basura en Callao 500"} -> "50:00"
    [] text = "no, es Pasteur 451" -> "45:00"
    [] OTHER -> text

\* situationType keywords; obstruccion when none matches
situationTypeOf(text) == "obstruccion"

\* What a pass does, for the action that applies it:
\*   outcome  which return of the function was taken
\*   info     the sender's pendingInfoRequests entry afterwards
\*   vehicles the sender's vehiclePatenteQueue afterwards
\*   submit   the draft handed to `await this.submitRequest` (or NoRequest)
\*   then     "vehicleNext" when lines 723-769 follow the awaited call
\*   push     the jobs pushed onto requestQueue, in order
\*   keys     the short-window keys set
\*   queue    this.processQueue() is called at the end
\*   base     requestQueue as the pass leaves it, before its pushes
\*   responded  extraction.response was sent to the chat (line 837)
\*   keepBatch  the pass returns without pendingMessages.delete(senderId)
Effect(outcome, info, vehicles, submit, then) ==
  [outcome |-> outcome, info |-> info, vehicles |-> vehicles,
   submit |-> submit, then |-> then, push |-> <<>>, keys |-> {},
   queue |-> FALSE, base |-> requestQueue, responded |-> FALSE,
   keepBatch |-> outcome \in {"keep", "reask"}]

\* Lines 425-446.
looksLikeNewReport(pendingRequest, text, photos) ==
  LET hasNewPhotos == Len(photos) > 0
      hasNewAddress == text # Null /\ addressPattern(text)
      isDifferentAddress ==
        hasNewAddress /\ ~includes(text, firstToken(pendingRequest.address))
  IN \/ hasNewPhotos /\ hasNewAddress
     \/ isDifferentAddress /\ newReportPatterns(text)

\* Lines 448-772 for a batch that is not taken for a new report.  The
\* outcome "fresh" stands for reaching line 774: the normal flow goes on
\* with the state still in place.
answerField_keeps(s, pendingRequest, text, photos, llm) ==
  [Effect("submit", pendingRequest, vehiclePatenteQueue[s], pendingRequest, "")
     EXCEPT !.keepBatch = TRUE]

answerField(s, pendingRequest, text, photos, llm) ==
  LET awaitingField == pendingRequest.awaitingField
      vehicles == vehiclePatenteQueue[s]
      keep == Effect("fresh", pendingRequest, vehicles, NoRequest, "")
  IN
  CASE awaitingField = "photo" ->
         LET photo == IF Len(photos) > 0 THEN photos[1]
                      ELSE IF text # Null /\ alreadySent(text)
                        THEN historyPhoto(s)
                        ELSE NoPhoto
         IN IF photo # NoPhoto
              THEN Effect("submit", NoRequest, vehicles,
                          [pendingRequest EXCEPT !.photo = photo], "")
            ELSE IF text # Null /\ saysSent(text)
              THEN Effect("reask", pendingRequest, vehicles, NoRequest, "")
              ELSE keep
    [] awaitingField = "photos" /\ pendingRequest.reportType = VEHICLE ->
         IF Len(photos) = 0
           THEN Effect("keep", pendingRequest, vehicles, NoRequest, "")
           ELSE LET r == [pendingRequest EXCEPT !.photos = @ \o photos] IN
             IF Len(r.photos) < 2
               THEN Effect("ask", r, vehicles, NoRequest, "")
             ELSE IF r.patente = Null
               THEN Effect("ask", [r EXCEPT !.awaitingField = "patente"],
                           vehicles, NoRequest, "")
             ELSE IF r.infractionTime = Null
               THEN Effect("ask", [r EXCEPT !.awaitingField = "infractionTime"],
                           vehicles, NoRequest, "")
             ELSE Effect("submit", NoRequest,
                         IF vehicles # <<>> THEN Tail(vehicles) ELSE vehicles,
                         r, "")
    [] awaitingField = "address" /\ text # Null ->
         Effect("submit", NoRequest, vehicles,
                [pendingRequest EXCEPT !.address = llm.cleanAddress], "")
    [] awaitingField = "reportType" /\ text # Null ->
         LET r == [pendingRequest EXCEPT !.reportType = llm.reportType] IN
         IF llm.reportType = "manteros" /\ r.schedule = Null
           THEN Effect("ask", [r EXCEPT !.awaitingField = "schedule"],
                       vehicles, NoRequest, "")
           ELSE Effect("submit", NoRequest, vehicles, r, "")
    [] text # Null /\ awaitingField \notin {"photo", "address", "reportType"}
         /\ ~(awaitingField = "photos" /\ pendingRequest.reportType = VEHICLE) ->
         LET r ==
               CASE awaitingField = "situationType" ->
                      [pendingRequest EXCEPT !.situationType = situationTypeOf(text)]
                 [] awaitingField = "patente" ->
                      [pendingRequest EXCEPT !.patente = patenteOf(text)]
                 [] awaitingField = "infractionTime" ->
                      [pendingRequest EXCEPT !.infractionTime = infractionTimeOf(text)]
                 [] awaitingField = "patenteConfirmation" ->
                      IF confirmPhrases(text)
                        THEN [pendingRequest EXCEPT !.confirmed = TRUE]
                      ELSE IF correctedPatente(text) # Null
                        THEN [pendingRequest EXCEPT !.patente = correctedPatente(text)]
                        ELSE pendingRequest
                 [] OTHER -> [pendingRequest EXCEPT !.schedule = text]
         IN Effect("submit", NoRequest, vehicles, r,
                   IF awaitingField = "patenteConfirmation"
                     THEN "vehicleNext" ELSE "")
    [] OTHER -> keep

\* ------------------------------------------------------------------------
\* The fresh path (lines 783-1348) for an extraction with requests.
\* ------------------------------------------------------------------------
\* isValidAddress (lines 907-924): a digit, no placeholder phrase, 3..100
\* characters.
isValidAddress(address) == address \notin {Null, "dirección pendiente"}

\* A candidate of the extractor.
Candidate(address, reportType, schedule, patente, infractionTime) ==
  [address |-> address, reportType |-> reportType, schedule |-> schedule,
   situationType |-> Null, patente |-> patente,
   infractionTime |-> infractionTime, postToX |-> FALSE]

\* The classification loop (lines 938-974) for one candidate.
classify(req, processedAddresses, photoCount) ==
  CASE ~isValidAddress(req.address) -> "invalid"
    [] isRecentDuplicate(req.address, req.reportType, processedAddresses,
                         req.patente) # NoEntry -> "duplicate"
    [] req.reportType = "manteros"
         /\ req.schedule \in {Null, "No especificado"} -> "needsSchedule"
    [] req.reportType \in {"puesto_diarios", "puesto_flores"}
         /\ req.situationType = Null -> "needsSituationType"
    [] req.reportType = VEHICLE -> "needsVehicleInfo"
    [] OTHER -> "new"

missingFieldOf(req, photoCount) ==
  CASE photoCount < 2 -> "photos"
    [] req.patente = Null -> "patente"
    [] req.infractionTime = Null -> "infractionTime"
    [] OTHER -> "patenteConfirmation"

\* The draft put on the vehicle queue (lines 1076-1095); every photo of the
\* batch is taken for it.
vehicleReport(id, s, req, photos) ==
  [NoRequest EXCEPT !.id = id, !.senderId = s, !.address = req.address,
                    !.photos = photos, !.reportType = VEHICLE,
                    !.patente = req.patente,
                    !.infractionTime = req.infractionTime,
                    !.missingField = IF Len(photos) < 2 THEN "photos"
                                     ELSE missingFieldOf(req, Len(photos)),
                    !.postToX = req.postToX]

\* The state that surfaces the head of the vehicle queue (1136-1140,
\* 1335-1339).
vehicleState(firstVehicle) ==
  [firstVehicle EXCEPT !.awaitingField = firstVehicle.missingField,
                       !.awaitingQuestion = "question"]

\* The state parked for a candidate that needs a schedule or a situation
\* type (lines 996-1005, 1032-1041); the first photo of the batch goes along.
askState(id, s, req, photos, field) ==
  [NoRequest EXCEPT !.id = id, !.senderId = s, !.address = req.address,
                    !.photo = IF Len(photos) > 0 THEN photos[1] ELSE NoPhoto,
                    !.reportType = req.reportType,
                    !.awaitingField = field, !.awaitingQuestion = "question"]

\* The job pushed for a new request (lines 1274-1288); without msgIndex and
\* without a text naming the address the most recent photo is taken.
jobOf(id, s, req, photos) ==
  [NoRequest EXCEPT !.id = id, !.senderId = s, !.address = req.address,
                    !.reportType = IF req.reportType = Null THEN "recoleccion"
                                   ELSE req.reportType,
                    !.schedule = req.schedule,
                    !.situationType = req.situationType,
                    !.patente = req.patente,
                    !.infractionTime = req.infractionTime,
                    !.photo = IF Len(photos) > 0 THEN photos[Len(photos)]
                              ELSE NoPhoto,
                    !.postToX = req.postToX]

\* The push loop (lines 1206-1290): a candidate whose key was set less than
\* five minutes ago -- earlier, or by a candidate before it in this loop --
\* is skipped.
RECURSIVE pushLoop(_, _, _, _, _)
pushLoop(tagged, s, photos, keys, jobs) ==
  IF tagged = <<>> THEN [push |-> jobs, keys |-> keys]
  ELSE LET req == Head(tagged).req
           key == addrKey(req)
       IN IF isRecentlyQueued(key) \/ key \in keys
            THEN pushLoop(Tail(tagged), s, photos, keys, jobs)
            ELSE pushLoop(Tail(tagged), s, photos, keys \cup {key},
                          Append(jobs, jobOf(Head(tagged).id, s, req, photos)))

\* The partial request saved when the bot answers a batch that holds a
\* photo and a text with a number (lines 864-876).
partialState(id, s, batch, photos) ==
  LET partialInfo == batch.partialRequest IN
  [NoRequest EXCEPT !.id = id, !.senderId = s,
                    !.address = IF partialInfo.address # Null
                                  THEN partialInfo.address
                                  ELSE partialAddressOf(batch.textWithAddress),
                    !.photo = photos[1], !.photos = photos,
                    !.reportType = partialInfo.reportType,
                    !.patente = partialInfo.patente,
                    !.infractionTime = partialInfo.infractionTime,
                    !.awaitingField = IF batch.awaitingField # Null
                                        THEN batch.awaitingField
                                        ELSE "reportType",
                    !.awaitingQuestion = "question"]

\* requestQueue.findIndex(r => r.senderId === senderId); 0 for -1.
findIndex(q, s) ==
  IF \E i \in DOMAIN q : q[i].senderId = s
    THEN CHOOSE i \in DOMAIN q :
           q[i].senderId = s /\ \A j \in 1..(i - 1) : q[j].senderId # s
    ELSE 0

\* The address correction (lines 787-822).
correction(s, info, correctedAddress, id) ==
  LET vehicles == vehiclePatenteQueue[s]
      pendingRequestIdx == findIndex(requestQueue, s)
  IN IF pendingRequestIdx # 0 /\ ~isProcessingQueue
       THEN [Effect("corrected", info, vehicles, NoRequest, "")
               EXCEPT !.base = [requestQueue EXCEPT
                                  ![pendingRequestIdx].address = correctedAddress]]
     ELSE IF pendingRequestIdx # 0
       THEN [Effect("correctedLate", info, vehicles, NoRequest, "")
               EXCEPT !.push = <<[requestQueue[pendingRequestIdx] EXCEPT
                                    !.address = correctedAddress, !.id = id]>>]
       ELSE Effect("correctedNone", info, vehicles, NoRequest, "")

\* An extraction without requests (lines 824-892).
noRequests_always(s, info, photos, batch, id) ==
  [Effect("discard", info, vehiclePatenteQueue[s], NoRequest, "")
     EXCEPT !.responded = TRUE]

noRequests(s, info, photos, batch, id) ==
  LET vehicles == vehiclePatenteQueue[s]
      textWithAddress == batch.textWithAddress
  IN IF ~batch.shouldRespond
       THEN Effect("discard", info, vehicles, NoRequest, "")
     ELSE IF /\ Len(photos) > 0
             /\ textWithAddress # Null
             /\ partialAddressOf(textWithAddress) # Null
       THEN [Effect("partial", partialState(id, s, batch, photos), vehicles,
                    NoRequest, "")
               EXCEPT !.responded = TRUE]
       ELSE [Effect("respond", info, vehicles, NoRequest, "")
               EXCEPT !.responded = TRUE, !.keepBatch = TRUE]

freshPath(s, info, photos, batch, idBase) ==
  LET vehicles == vehiclePatenteQueue[s]
      requests == batch.requests
      processedAddresses == getProcessedSolicitudes
      tagged == [i \in DOMAIN requests |->
                   [req |-> requests[i], id |-> idBase + i - 1,
                    kind |-> classify(requests[i], processedAddresses, Len(photos))]]
      of(kind) == SelectSeq(tagged, LAMBDA x : x.kind = kind)
      newRequests == of("new")
      duplicates == of("duplicate")
      needsSchedule == of("needsSchedule")
      needsSituationType == of("needsSituationType")
      needsVehicleInfo == of("needsVehicleInfo")
      alone == newRequests = <<>> /\ duplicates = <<>>
      queued == vehicles \o
                  [i \in DOMAIN needsVehicleInfo |->
                     vehicleReport(needsVehicleInfo[i].id, s,
                                   needsVehicleInfo[i].req, photos)]
      loop == pushLoop(newRequests, s, photos, {}, <<>>)
  IN
  IF batch.isCorrection /\ batch.correctedAddress # Null
    THEN correction(s, info, batch.correctedAddress, idBase)
  ELSE IF requests = <<>>
    THEN noRequests(s, info, photos, batch, idBase)
  ELSE IF needsSchedule # <<>> /\ alone
    THEN Effect("ask", askState(needsSchedule[1].id, s, needsSchedule[1].req,
                                photos, "schedule"),
                vehicles, NoRequest, "")
  ELSE IF needsSituationType # <<>> /\ alone
    THEN Effect("ask", askState(needsSituationType[1].id, s,
                                needsSituationType[1].req, photos,
                                "situationType"),
                vehicles, NoRequest, "")
  ELSE IF needsVehicleInfo # <<>> /\ alone
    THEN Effect("ask", vehicleState(queued[1]), queued, NoRequest, "")
  ELSE [Effect("queue",
               IF queued # <<>> THEN vehicleState(queued[1]) ELSE info,
               queued, NoRequest, "")
          EXCEPT !.push = loop.push, !.keys = loop.keys, !.queue = TRUE]


\* ------------------------------------------------------------------------
\* handleMessage, history part (lines 316-337): the message is pushed on
\* the sender's history, then the oldest entries are shifted off while the
\* oldest is older than MESSAGE_RETENTION_MS or the history is longer than
\* MAX_HISTORY_PER_USER; the photo file of a shifted entry is unlinked.
\* ------------------------------------------------------------------------
MAX_HISTORY_PER_USER == 100
MESSAGE_RETENTION_MS == 120   \* 2 hours, in minutes

messageObj(photo, timestamp) == [photo |-> photo, timestamp |-> timestamp]

RECURSIVE cleanUp(_, _)
cleanUp(userHistory, t) ==
  IF Len(userHistory) = 0 THEN userHistory
  ELSE IF \/ t - Head(userHistory).timestamp > MESSAGE_RETENTION_MS
          \/ Len(userHistory) > MAX_HISTORY_PER_USER
    THEN cleanUp(Tail(userHistory), t)
    ELSE userHistory

recordMessage(userHistory, msg, t) == cleanUp(Append(userHistory, msg), t)

\* The messages of a batch recorded one after the other.
RECURSIVE recordMessages(_, _, _)
recordMessages(userHistory, msgs, t) ==
  IF msgs = <<>> THEN userHistory
  ELSE recordMessages(recordMessage(userHistory, Head(msgs), t), Tail(msgs), t)

photosOf(userHistory) ==
  {userHistory[i].photo : i \in DOMAIN userHistory} \ {NoPhoto}

\* handleMessage for a message with media (lines 280-311): messageObj gets
\* its timestamp, then the call awaits msg.downloadMedia() and savePhoto.
\* The message id names the photo file.
historyVars == <<requestQueue, isProcessingQueue, workers, submits,
                 scheduledRetries, pendingInfoRequests, vehiclePatenteQueue,
                 recentlyQueuedAddresses, reportsLog, pushLog, workerLog,
                 fetchLog, failLog, escapes, guardHits, sendFailures, passLog,
                 returnLog, extraction, passVars>>

handleMessage_media(s) ==
  /\ nextId <= MaxHistoryMessages
  /\ handlers' = handlers \cup {[sender |-> s, msg |-> messageObj(nextId, now)]}
  /\ nextId' = nextId + 1
  /\ UNCHANGED <<serverVars, userMessageHistory, unlinked, now, historyVars>>

\* The history part of handleMessage (lines 316-337) for message msg of
\* sender s at the present time.
handleMessage_history(s, msg) ==
  /\ userMessageHistory' =
       [userMessageHistory EXCEPT ![s] = recordMessage(@, msg, now)]
  /\ unlinked' = unlinked \cup (photosOf(Append(userMessageHistory[s], msg))
                                  \ photosOf(userMessageHistory'[s]))

\* The download is over: the call goes on to the history.
handleMessage_saved(h) ==
  /\ h \in handlers
  /\ handlers' = handlers \ {h}
  /\ handleMessage_history(h.sender, h.msg)
  /\ UNCHANGED <<serverVars, nextId, now, historyVars>>

\* A message without media: nothing is awaited between the timestamp and
\* the history.
handleMessage_text(s) ==
  /\ nextId <= MaxHistoryMessages
  /\ nextId' = nextId + 1
  /\ handleMessage_history(s, messageObj(NoPhoto, now))
  /\ UNCHANGED <<serverVars, handlers, now, historyVars>>

\* Time passes: a minute while a download is in progress (a download takes
\* no longer than MaxDownload), or the retention time between downloads.
HistorySteps == {1, MESSAGE_RETENTION_MS}

handleMessage_tick(d) ==
  /\ now + d <= MaxHistoryTime
  /\ IF handlers = {} THEN d = MESSAGE_RETENTION_MS
     ELSE d = 1 /\ \A h \in handlers : now + d - h.msg.timestamp <= MaxDownload
  /\ now' = now + d
  /\ UNCHANGED <<serverVars, userMessageHistory, unlinked, handlers, nextId, historyVars>>

\* The messages of a batch as handleMessage saw them: its photos, then its
\* text if it has one.  They are recorded at the time of the pass: the
\* debounce delay is seconds, the clock counts minutes.
messagesOf(batch, photos) ==
  [i \in DOMAIN photos |-> messageObj(photos[i], now)]
    \o (IF batch.text # Null THEN <<messageObj(NoPhoto, now)>> ELSE <<>>)

\* ------------------------------------------------------------------------
\* One pass of _processPendingMessagesImpl over a batch, up to its end or
\* to the `await this.submitRequest` it suspends at.  A batch is the text of
\* its last message (Null: a photo without caption), its photos, and what
\* the language model answers for it: the requests of extractRequests, the
\* address of extractCleanAddress, the type of extractReportType.  The
\* passes of one sender follow one another.
\* ------------------------------------------------------------------------
Batch(text, nPhotos, requests, cleanAddress, reportType) ==
  [text |-> text, nPhotos |-> nPhotos, requests |-> requests,
   cleanAddress |-> cleanAddress, reportType |-> reportType,
   textWithAddress |-> IF hasDigits(text) THEN text ELSE Null,
   isCorrection |-> FALSE, correctedAddress |-> Null,
   shouldRespond |-> FALSE, awaitingField |-> Null,
   partialRequest |-> Candidate(Null, Null, Null, Null, Null)]

\* An extraction that is an address correction.
Correction(text, correctedAddress) ==
  [Batch(text, 0, <<>>, Null, Null)
     EXCEPT !.isCorrection = TRUE, !.correctedAddress = correctedAddress]

\* An extraction without requests that tells the bot to answer:
\* textWithAddress is the first text of the batch that holds a digit,
\* awaitingField and partialRequest are what the extractor gives (Null and
\* empty fields when it gives none).
Question(text, textWithAddress, nPhotos, awaitingField, partialRequest) ==
  [Batch(text, nPhotos, <<>>, Null, Null)
     EXCEPT !.textWithAddress = textWithAddress, !.shouldRespond = TRUE,
            !.awaitingField = awaitingField,
            !.partialRequest = partialRequest]

Impl(s, batch) ==
  /\ microtasks = <<>>
  /\ Cardinality(passLog) < MaxPasses
  /\ ~\E c \in submits : c.caller = "pass" /\ c.request.senderId = s
  /\ LET photos == [i \in 1..batch.nPhotos |-> nextId + i - 1]
         idBase == nextId + batch.nPhotos
         pendingRequest == pendingInfoRequests[s]
         superseded == /\ pendingRequest # NoRequest
                       /\ looksLikeNewReport(pendingRequest, batch.text, photos)
         answered == IF pendingRequest # NoRequest /\ ~superseded
                       THEN answerField(s, pendingRequest, batch.text, photos, batch)
                       ELSE Effect("fresh", NoRequest, vehiclePatenteQueue[s],
                                   NoRequest, "")
         fresh == answered.outcome = "fresh"
         eff == IF fresh
                  THEN freshPath(s, answered.info, photos, batch, idBase)
                  ELSE answered
         sid == freeId(submits)
         wid == freeId(workers)
         pq == processQueue(eff.base \o eff.push)
         started == eff.queue /\ pq.started
         sub == IF eff.submit # NoRequest
                  THEN startSubmit(sid, eff.submit, "pass", 0, eff.then)
                  ELSE startSubmit(sid, pq.request, "worker", wid, "")
         calling == eff.submit # NoRequest \/ started
     IN /\ pendingInfoRequests' = [pendingInfoRequests EXCEPT ![s] = eff.info]
        /\ vehiclePatenteQueue' = [vehiclePatenteQueue EXCEPT ![s] = eff.vehicles]
        /\ recentlyQueuedAddresses' =
             {e \in recentlyQueuedAddresses : e.key \notin eff.keys}
               \cup {[key |-> k, at |-> now] : k \in eff.keys}
        /\ pushLog' = pushLog \o [i \in DOMAIN eff.push |-> eff.push[i].id]
        /\ requestQueue' = IF eff.queue THEN pq.queue ELSE eff.base \o eff.push
        /\ isProcessingQueue' = (isProcessingQueue \/ started)
        /\ workers' = IF started
                        THEN workers \cup {[id |-> wid, pc |-> "submit"]}
                        ELSE workers
        /\ workerLog' = IF started THEN Append(workerLog, pq.request.id)
                        ELSE workerLog
        /\ submits' = IF calling THEN submits \cup {sub} ELSE submits
        /\ fetchLog' = IF calling THEN fetchLogAfter(sub) ELSE fetchLog
        /\ guardHits' = (guardHits \/ (eff.queue /\ isProcessingQueue))
        /\ userMessageHistory' =
             [userMessageHistory EXCEPT ![s] =
                recordMessages(@, messagesOf(batch, photos), now)]
        /\ unlinked' = unlinked \cup (photosOf(userMessageHistory[s])
                                        \ photosOf(userMessageHistory'[s]))
        /\ nextId' = idBase + (IF ~fresh THEN 0
                                ELSE IF batch.requests # <<>>
                                  THEN Len(batch.requests) ELSE 1)
        /\ passLog' = passLog \cup
             {[n |-> Cardinality(passLog) + 1, at |-> now,
               sender |-> s, text |-> batch.text, nPhotos |-> batch.nPhotos,
               state |-> pendingRequest, superseded |-> superseded,
               requests |-> IF fresh THEN batch.requests ELSE <<>>,
               outcome |-> eff.outcome, submit |-> eff.submit,
               kinds |-> IF fresh
                           THEN [i \in DOMAIN batch.requests |->
                                   classify(batch.requests[i],
                                            getProcessedSolicitudes,
                                            batch.nPhotos)]
                           ELSE <<>>,
               info |-> eff.info, vehicles |-> eff.vehicles, push |-> eff.push,
               queue |-> requestQueue, base |-> eff.base,
               inFlight |-> \E c \in submits :
                               c.caller = "worker" /\ c.request.senderId = s,
               responded |-> eff.responded, keepBatch |-> eff.keepBatch]}
  /\ UNCHANGED <<serverVars, scheduledRetries, reportsLog, now, failLog, escapes,
                 sendFailures, returnLog, extraction, handlers, passVars>>

\* ========================================================================
\* extractRequests: the retry loop around anthropic.messages.create
\* (lines 1482-1609).  Waits are in seconds.
\* ========================================================================
MAX_RETRIES == 3

\* What one attempt can meet: a response holding a JSON object, a response
\* without one, a response whose object does not parse, or an error thrown
\* by the provider call, told apart by status and message.
Responses == {"json", "noJson", "badJson"}

ProviderErrors == {"529", "Overloaded", "500", "503", "400", "401", "network"}

isRetryable(error) == error \in {"529", "Overloaded", "500", "503"}

clarify == [shouldRespond |-> TRUE, requests |-> <<>>,
            response |-> "No entendí tu mensaje. ¿Podés decirme la dirección?"]

saturated == [shouldRespond |-> TRUE, requests |-> <<>>,
              response |-> "Disculpá, el sistema está saturado. Intentá de nuevo en unos minutos."]

\* The parsed object of the provider is returned as it is.
parsed == [shouldRespond |-> FALSE, requests |-> <<"request">>, response |-> Null]

NoExtraction == [pc |-> "idle", attempt |-> 0, met |-> <<>>, waits |-> <<>>,
                 result |-> clarify]

extractVars == <<requestQueue, isProcessingQueue, workers, submits,
                 scheduledRetries, pendingInfoRequests, vehiclePatenteQueue,
                 recentlyQueuedAddresses, reportsLog, unlinked, now, nextId,
                 pushLog, workerLog, fetchLog, failLog, escapes, guardHits,
                 sendFailures, passLog, returnLog, userMessageHistory, handlers,
                 passVars>>

\* The call reaches the loop: attempt = 1.
extractRequests ==
  /\ extraction.pc = "idle"
  /\ extraction' = [extraction EXCEPT !.pc = "attempt", !.attempt = 1]
  /\ UNCHANGED <<serverVars, extractVars>>

\* The wait of an attempt that failed with a retryable error and is not the
\* last one: attempt * 5000 ms.  The append to errors.log (lines 1590, 1606)
\* is taken to succeed.
waitTime_flat(attempt) == 5

waitTime(attempt) == attempt * 5

\* await anthropic.messages.create(...) of the current attempt is over.
extractRequests_attempt(outcome) ==
  /\ extraction.pc = "attempt"
  /\ LET attempt == extraction.attempt
         e == [extraction EXCEPT !.met = Append(@, outcome)]
     IN extraction' =
          CASE outcome = "json" -> [e EXCEPT !.pc = "returned", !.result = parsed]
            [] outcome \in {"noJson", "badJson"} ->
                 [e EXCEPT !.pc = "returned", !.result = clarify]
            [] isRetryable(outcome) /\ attempt < MAX_RETRIES ->
                 [e EXCEPT !.pc = "delay", !.waits = Append(@, waitTime(attempt))]
            [] OTHER -> [e EXCEPT !.pc = "returned", !.result = saturated]
  /\ UNCHANGED <<serverVars, extractVars>>

\* await this.delay(waitTime) is over: continue with the next attempt.
extractRequests_continue ==
  /\ extraction.pc = "delay"
  /\ extraction' = [extraction EXCEPT !.pc = "attempt", !.attempt = @ + 1]
  /\ UNCHANGED <<serverVars, extractVars>>

NextExtract ==
  \/ extractRequests
  \/ \E outcome \in Responses \cup ProviderErrors : extractRequests_attempt(outcome)
  \/ extractRequests_continue

\* ========================================================================
\* checkPastMessages (lines 2230-2569), run by the 'ready' handler when the
\* process starts: the memory of the process is new (the maps, the queue,
\* the timers and the calls of a previous run are gone); the reports log,
\* the photo files and the clock go on.  The scan of one sender's recent
\* messages: every candidate with a valid address that the persisted index
\* does not block is entered in the short window; a vehicle candidate with
\* a plate is put on the sender's vehicle queue, every other candidate is
\* pushed on the request queue; the head of the vehicle queue is surfaced
\* and processQueue is called.
\* ========================================================================
startupVehicle(id, s, req, photos) ==
  [vehicleReport(id, s, req, photos)
     EXCEPT !.photo = IF Len(photos) > 0 THEN photos[Len(photos)] ELSE NoPhoto,
            !.missingField = IF Len(photos) >= 2 THEN "patenteConfirmation"
                             ELSE "photos"]

startupJob(id, s, req, photos) ==
  [jobOf(id, s, req, photos)
     EXCEPT !.photos = IF req.reportType = VEHICLE THEN photos ELSE <<>>]

checkPastMessages(s, batch) ==
  /\ ~\E p \in passLog : p.outcome = "startup"
  /\ Cardinality(passLog) < MaxPasses
  /\ LET photos == [i \in 1..batch.nPhotos |-> nextId + i - 1]
         idBase == nextId + batch.nPhotos
         requests == batch.requests
         processedAddresses == getProcessedSolicitudes
         tagged == [i \in DOMAIN requests |->
                      [req |-> requests[i], id |-> idBase + i - 1]]
         found == SelectSeq(tagged, LAMBDA x :
                    /\ isValidAddress(x.req.address)
                    /\ isRecentDuplicate(x.req.address, x.req.reportType,
                                         processedAddresses, x.req.patente)
                         = NoEntry)
         toConfirm == SelectSeq(found, LAMBDA x :
                        x.req.reportType = VEHICLE /\ x.req.patente # Null)
         toQueue == SelectSeq(found, LAMBDA x :
                      ~(x.req.reportType = VEHICLE /\ x.req.patente # Null))
         vehicles == [i \in DOMAIN toConfirm |->
                        startupVehicle(toConfirm[i].id, s, toConfirm[i].req, photos)]
         jobs == [i \in DOMAIN toQueue |->
                    startupJob(toQueue[i].id, s, toQueue[i].req, photos)]
         info == IF vehicles # <<>>
                   THEN [vehicles[1] EXCEPT !.awaitingField = vehicles[1].missingField]
                   ELSE NoRequest
         started == jobs # <<>>
         sub == startSubmit(1, IF started THEN Head(jobs) ELSE NoRequest,
                            "worker", 1, "")
     IN /\ pendingInfoRequests' = [t \in Senders |-> IF t = s THEN info ELSE NoRequest]
        /\ vehiclePatenteQueue' = [t \in Senders |-> IF t = s THEN vehicles ELSE <<>>]
        /\ recentlyQueuedAddresses' =
             {[key |-> addrKey(found[i].req), at |-> now] : i \in DOMAIN found}
        /\ requestQueue' = IF started THEN Tail(jobs) ELSE <<>>
        /\ isProcessingQueue' = started
        /\ workers' = IF started THEN {[id |-> 1, pc |-> "submit"]} ELSE {}
        /\ submits' = IF started THEN {sub} ELSE {}
        /\ scheduledRetries' = {}
        /\ pushLog' = pushLog \o [i \in DOMAIN jobs |-> jobs[i].id]
        /\ workerLog' = IF started THEN Append(workerLog, Head(jobs).id)
                        ELSE workerLog
        /\ fetchLog' = IF started THEN fetchLogAfter(sub) ELSE fetchLog
        /\ nextId' = idBase + Len(requests)
        /\ userMessageHistory' = [t \in Senders |-> <<>>]
        /\ extraction' = NoExtraction
        /\ handlers' = {}
        /\ pendingMessages' = [t \in Senders |-> NoBatch]
        /\ debounceTimers' = {}
        /\ userProcessingLocks' = [t \in Senders |-> 0]
        /\ calls' = <<>>
        /\ microtasks' = <<>>
        /\ passLog' = passLog \cup
             {[n |-> Cardinality(passLog) + 1, at |-> now,
               sender |-> s, text |-> batch.text, nPhotos |-> batch.nPhotos,
               state |-> NoRequest, superseded |-> FALSE,
               requests |-> requests,
               outcome |-> "startup", submit |-> NoRequest,
               kinds |-> [i \in DOMAIN requests |->
                            classify(requests[i], processedAddresses,
                                     batch.nPhotos)],
               info |-> info, vehicles |-> vehicles, push |-> jobs,
               queue |-> <<>>, base |-> <<>>, inFlight |-> FALSE,
               responded |-> FALSE, keepBatch |-> FALSE]}
  /\ UNCHANGED <<serverVars, reportsLog, unlinked, now, failLog, escapes, guardHits,
                 sendFailures, returnLog, nextMsg>>

\* ========================================================================
\* Submission server: app.post('/solicitud')
\* ========================================================================
MaxPosts == 3              \* POST /solicitud requests received in SpecServer
SUBMISSION_DEDUP_MS == 5   \* minutes
maxAttempts == 2

ServerAddresses == {"Pasteur 415", "pasteur 415", "Callao 500"}

\* normalizeAddressForDedup: lower case, accents and every character that
\* is not a letter or a digit removed.
normalizeAddressForDedup(address) ==
  CASE address \in {"Pasteur 415", "pasteur 415"} -> "pasteur415"
    [] address = "Callao 500" -> "callao500"
    [] OTHER -> address

ServerKeys == {normalizeAddressForDedup(a) : a \in ServerAddresses}

\* What submitSolicitud returns or throws.  number 0: no solicitudNumber.
\*   kind "result"  the object it returned
\*   kind "address" it threw 'No address suggestions found'
\*   kind "error"   it threw anything else
\*   kind "null"    resolveSubmission(null)
\*   kind "pending" a promise not resolved yet
SubmitResult(kind, success, number) ==
  [kind |-> kind, success |-> success, solicitudNumber |-> number]

Pending == SubmitResult("pending", FALSE, 0)
NullResult == SubmitResult("null", FALSE, 0)

submitSolicitud(p) ==
  {SubmitResult("result", TRUE, p),
   SubmitResult("result", TRUE, 0),
   SubmitResult("result", FALSE, 0),
   SubmitResult("address", FALSE, 0),
   SubmitResult("error", FALSE, 0)}

NoSubmission == [timestamp |-> 0, solicitudNumber |-> 0]

NoResponse == [status |-> 0, success |-> FALSE, solicitudNumber |-> 0,
               duplicate |-> FALSE]

Response(status, result, duplicate) ==
  [status |-> status, success |-> result.success,
   solicitudNumber |-> result.solicitudNumber, duplicate |-> duplicate]

\* Lines "Create a promise for this submission" to the first call of
\* submitSolicitud: the new promise replaces the address's map entry,
\* whichever promise the entry holds.
acquire(locks, key, promise) == [locks EXCEPT ![key] = promise]

startPost(p, rec) ==
  LET key == normalizeAddressForDedup(rec.address)
      own == Len(promises) + 1
  IN /\ promises' = Append(promises, Pending)
     /\ submissionLocks' = acquire(submissionLocks, key, own)
     /\ posts' = [i \in 1..(IF p > Len(posts) THEN p ELSE Len(posts)) |->
                    IF i = p
                      THEN [rec EXCEPT !.pc = "submitSolicitud", !.own = own,
                                       !.attempt = 1, !.submitted = 1]
                      ELSE posts[i]]

\* A request arrives: the handler runs to its first await or to its
\* response (the check against recentSubmissions, the lock).
post(address) ==
  /\ readyPosts = <<>>
  /\ Len(posts) < MaxPosts
  /\ LET p == Len(posts) + 1
         key == normalizeAddressForDedup(address)
         recent == recentSubmissions[key]
         rec == [address |-> address, pc |-> "done", awaited |-> 0, own |-> 0,
                 attempt |-> 0, submitted |-> 0, result |-> Pending,
                 response |-> NoResponse]
     IN IF recent # NoSubmission /\ now - recent.timestamp < SUBMISSION_DEDUP_MS
          THEN /\ posts' = Append(posts,
                     [rec EXCEPT !.response =
                        Response(200, SubmitResult("result", TRUE,
                                                   recent.solicitudNumber), TRUE)])
               /\ UNCHANGED <<promises, submissionLocks>>
          ELSE IF submissionLocks[key] # 0
            THEN /\ posts' = Append(posts,
                       [rec EXCEPT !.pc = "awaitLock",
                                   !.awaited = submissionLocks[key]])
                 /\ UNCHANGED <<promises, submissionLocks>>
            ELSE startPost(p, rec)
  /\ UNCHANGED <<recentSubmissions, readyPosts, passVars, submitVars>>

\* The awaited promise was resolved: a successful result is returned as
\* this request's own; after any other value the handler goes on to its
\* own submission without reading the map again.
post_afterLock ==
  /\ readyPosts # <<>>
  /\ LET p == Head(readyPosts)
         existingResult == promises[posts[p].awaited]
     IN IF existingResult.kind # "null" /\ existingResult.success
          THEN /\ posts' = [posts EXCEPT ![p].pc = "done",
                                         ![p].response =
                                            Response(200, existingResult, TRUE)]
               /\ UNCHANGED <<promises, submissionLocks>>
          ELSE startPost(p, posts[p])
  /\ readyPosts' = Tail(readyPosts)
  /\ UNCHANGED <<recentSubmissions, passVars, submitVars>>

\* await submitSolicitud(...) is over, by a return or a throw: the handler
\* awaits closeBrowser() in either case.
submitSolicitud_return(p, result) ==
  /\ readyPosts = <<>>
  /\ p \in DOMAIN posts
  /\ posts[p].pc = "submitSolicitud"
  /\ posts' = [posts EXCEPT ![p].pc = "closeBrowser", ![p].result = result]
  /\ UNCHANGED <<promises, submissionLocks, recentSubmissions, readyPosts,
                 passVars, submitVars>>

\* resolveSubmission(value); submissionLocks.delete(normalizedAddr): the
\* handlers awaiting this promise become ready in the order in which they
\* started to wait, and the address's map entry is deleted whichever
\* promise it holds.
resolveSubmission(p, value) ==
  LET own == posts[p].own
      waiters == {w \in DOMAIN posts :
                    posts[w].pc = "awaitLock" /\ posts[w].awaited = own}
  IN /\ promises' = [promises EXCEPT ![own] = value]
     /\ readyPosts' = SetToSeq(waiters)
     /\ submissionLocks' =
          [submissionLocks EXCEPT ![normalizeAddressForDedup(posts[p].address)] = 0]

\* await closeBrowser() is over.  After a returned result: record it,
\* resolve, respond.  After a throw: a second attempt three seconds later
\* for an address error of the first attempt, else resolve with null and
\* respond 500.
closeBrowser_return(p) ==
  /\ readyPosts = <<>>
  /\ p \in DOMAIN posts
  /\ posts[p].pc = "closeBrowser"
  /\ LET result == posts[p].result
         key == normalizeAddressForDedup(posts[p].address)
     IN CASE result.kind = "result" ->
               /\ recentSubmissions' =
                    IF result.success /\ result.solicitudNumber # 0
                      THEN [recentSubmissions EXCEPT ![key] =
                              [timestamp |-> now,
                               solicitudNumber |-> result.solicitudNumber]]
                      ELSE recentSubmissions
               /\ resolveSubmission(p, result)
               /\ posts' = [posts EXCEPT ![p].pc = "done",
                                         ![p].response =
                                            Response(200, result, FALSE)]
          [] result.kind = "address" /\ posts[p].attempt < maxAttempts ->
               /\ posts' = [posts EXCEPT ![p].pc = "delay"]
               /\ UNCHANGED <<promises, submissionLocks, recentSubmissions,
                              readyPosts>>
          [] OTHER ->
               /\ resolveSubmission(p, NullResult)
               /\ posts' = [posts EXCEPT ![p].pc = "done",
                                         ![p].response =
                                            Response(500, NullResult, FALSE)]
               /\ UNCHANGED recentSubmissions
  /\ UNCHANGED <<passVars, submitVars>>

\* The three seconds before the second attempt are over.
post_retry(p) ==
  /\ readyPosts = <<>>
  /\ p \in DOMAIN posts
  /\ posts[p].pc = "delay"
  /\ posts' = [posts EXCEPT ![p].pc = "submitSolicitud",
                            ![p].attempt = @ + 1,
                            ![p].submitted = @ + 1]
  /\ UNCHANGED <<promises, submissionLocks, recentSubmissions, readyPosts,
                 passVars, submitVars>>

\* ========================================================================
\* Initial state: the maps and the queue as the module creates them
\* (lines 66-98), no timer armed, no call in progress.
\* ========================================================================
InitSubmit ==
  /\ requestQueue = <<>>
  /\ isProcessingQueue = FALSE
  /\ workers = {}
  /\ submits = {}
  /\ scheduledRetries = {}
  /\ pendingInfoRequests = [s \in Senders |-> NoRequest]
  /\ vehiclePatenteQueue = [s \in Senders |-> <<>>]
  /\ recentlyQueuedAddresses = {}
  /\ reportsLog = <<>>
  /\ unlinked = {}
  /\ now = 0
  /\ nextId = 1
  /\ pushLog = <<>>
  /\ workerLog = <<>>
  /\ fetchLog = {}
  /\ failLog = {}
  /\ escapes = {}
  /\ guardHits = FALSE
  /\ sendFailures = 0
  /\ passLog = {}
  /\ returnLog = {}
  /\ extraction = NoExtraction
  /\ handlers = {}

InitPass ==
  /\ pendingMessages = [s \in Senders |-> NoBatch]
  /\ debounceTimers = {}
  /\ userProcessingLocks = [s \in Senders |-> 0]
  /\ calls = <<>>
  /\ microtasks = <<>>
  /\ nextMsg = 0

\* const userMessageHistory = new Map() (line 89).
InitLedger == userMessageHistory = [s \in Senders |-> <<>>]

\* const recentSubmissions = new Map(); const submissionLocks = new Map().
InitServer ==
  /\ posts = <<>>
  /\ promises = <<>>
  /\ submissionLocks = [k \in ServerKeys |-> 0]
  /\ recentSubmissions = [k \in ServerKeys |-> NoSubmission]
  /\ readyPosts = <<>>

Init == InitPass /\ InitSubmit /\ InitLedger /\ InitServer

NextPass ==
  \/ \E s \in Senders : handleMessage(s)
  \/ \E t \in debounceTimers, path \in ImplPaths : processPendingMessages(t, path)
  \/ \E path \in ImplPaths : processPendingMessages_afterLock(path)
  \/ \E c \in DOMAIN calls : processPendingMessagesImpl_delete(c)
  \/ \E c \in DOMAIN calls, how \in ImplReturns : processPendingMessagesImpl_return(c, how)
  \/ processPendingMessages_finally

SpecPass == Init /\ [][NextPass]_vars

\* SpecExtract: one call of extractRequests against a provider that answers
\* or fails in every way, attempt after attempt.
SpecExtract == Init /\ [][NextExtract]_vars

\* SpecHistory: messages of two senders with and without media, recorded
\* in the message history while the clock runs.
\* A history the sender filled before: n text messages of the first minute.
filled(n) == [i \in 1..n |-> messageObj(NoPhoto, 0)]

InitHistory ==
  /\ InitPass /\ InitSubmit /\ InitServer
  /\ userMessageHistory \in
       {[s \in Senders |-> IF s = "s1" THEN filled(n) ELSE <<>>] :
          n \in {0, MAX_HISTORY_PER_USER - 1, MAX_HISTORY_PER_USER}}

NextHistory ==
  \/ \E s \in Senders : handleMessage_media(s)
  \/ \E h \in handlers : handleMessage_saved(h)
  \/ \E s \in Senders : handleMessage_text(s)
  \/ \E d \in HistorySteps : handleMessage_tick(d)

SpecHistory == InitHistory /\ [][NextHistory]_vars

\* The buffer and its passes, with message contents and timer delays.
NextDebounce ==
  \/ \E s \in Senders, text \in DebounceTexts, photo \in DebouncePhotos :
        handleMessage_debounce(s, text, photo)
  \/ \E t \in debounceTimers, path \in ImplPaths : processPendingMessages(t, path)
  \/ \E path \in ImplPaths : processPendingMessages_afterLock(path)
  \/ \E c \in DOMAIN calls : processPendingMessagesImpl_delete(c)
  \/ \E c \in DOMAIN calls, how \in ImplReturns : processPendingMessagesImpl_return(c, how)
  \/ processPendingMessages_finally

SpecDebounce == Init /\ [][NextDebounce]_vars

\* ------------------------------------------------------------------------
\* SpecIndex: one sender reports a badly parked car with its plate, sees it
\* through to the reports log, and within or after twelve hours reports
\* again at the same address: the same plate, another plate, no plate yet,
\* or another kind of report.
\* ------------------------------------------------------------------------
IndexCandidates ==
  {Candidate("Pasteur 415", VEHICLE, Null, "AB123CD", "14:30"),
   Candidate("pasteur 415", VEHICLE, Null, "ab123cd", "14:30"),
   Candidate("Pasteur 415", VEHICLE, Null, "XY987ZW", "14:30"),
   Candidate("Pasteur 415", VEHICLE, Null, Null, Null),
   Candidate("pasteur 415", "recoleccion", Null, Null, Null)}

IndexBatches ==
  {Batch("Auto mal estacionado en Pasteur 415", 2, <<a>>, Null, Null) :
     a \in IndexCandidates}
  \cup {Batch(text, 0, <<>>, Null, Null) : text \in {"si", "AB123CD"}}

IndexResults == {Result(TRUE, TRUE, FALSE, Null, Null, FALSE)}

IndexSteps == {t - now : t \in {twelveHours - 1, twelveHours}}

NextIndex ==
  \/ \E batch \in IndexBatches :
       Cardinality(passLog) < MaxIndexPasses /\ Impl("s1", batch)
  \/ \E c \in submits, result \in IndexResults :
       submitRequest_return(c, result, FALSE, FALSE)
  \/ \E w \in workers : processQueue_loop(w)
  \/ \E d \in IndexSteps : Tick(d)

SpecIndex == Init /\ [][NextIndex]_vars

\* ------------------------------------------------------------------------
\* SpecWindow: one sender reports one or two problems, of the same or of
\* different kinds, at one address or at two, in one batch or in two
\* batches less or more than five minutes apart.
\* ------------------------------------------------------------------------
WindowCandidates ==
  {Candidate("Perón 1200", "recoleccion", Null, Null, Null),
   Candidate("perón 1200", "barrido", Null, Null, Null),
   Candidate("Corrientes 1200", "recoleccion", Null, Null, Null)}

WindowBatches ==
  {Batch("Hay basura en Perón 1200", 1, <<a>>, Null, Null) :
     a \in WindowCandidates}
  \cup {Batch("Hay basura en Perón 1200", 1, <<ab[1], ab[2]>>, Null, Null) :
          ab \in {x \in WindowCandidates \X WindowCandidates : x[1] # x[2]}}

WindowResults == {Result(TRUE, TRUE, FALSE, Null, Null, FALSE)}

NextWindow ==
  \/ \E batch \in WindowBatches :
       Cardinality(passLog) < MaxWindowPasses /\ Impl("s1", batch)
  \/ \E c \in submits, result \in WindowResults :
       submitRequest_return(c, result, FALSE, FALSE)
  \/ \E w \in workers : processQueue_loop(w)
  \/ \E d \in WindowSteps : Tick(d)

SpecWindow == Init /\ [][NextWindow]_vars

\* ------------------------------------------------------------------------
\* SpecReask: one sender's report, with or without a photo, comes back with
\* a question for the photo; the sender answers with a photo, says that the
\* photo was sent already, or writes something else.
\* ------------------------------------------------------------------------
ReaskBatches ==
  {Batch("Basura en Corrientes 1200", 0,
         <<Candidate("Corrientes 1200", "recoleccion", Null, Null, Null)>>,
         Null, Null),
   Batch("Basura en Callao 500", 1,
         <<Candidate("Callao 500", "recoleccion", Null, Null, Null)>>,
         Null, Null),
   Batch(Null, 1, <<>>, Null, Null),
   Batch("ya la mandé", 0, <<>>, Null, Null),
   Batch("ya está", 0, <<>>, Null, Null),
   Batch("Pasteur 415", 0,
         <<Candidate("Pasteur 415", "recoleccion", Null, Null, Null)>>,
         Null, Null)}

ReaskResults ==
  {Result(TRUE, TRUE, FALSE, Null, Null, FALSE),
   Result(FALSE, FALSE, TRUE, "photo", Null, FALSE)}

NextReask ==
  \/ \E batch \in ReaskBatches : Impl("s1", batch)
  \/ \E c \in submits, result \in ReaskResults :
       submitRequest_return(c, result, FALSE, FALSE)
  \/ \E w \in workers : processQueue_loop(w)

SpecReask == Init /\ [][NextReask]_vars

\* SpecPassFair: SpecPass on an event loop that runs every ready promise
\* continuation, with passes that end: each pass that reached an await
\* returns or throws at some time.
FairPass ==
  /\ WF_vars(processPendingMessages_finally)
  /\ WF_vars(\E path \in ImplPaths : processPendingMessages_afterLock(path))
  /\ \A c \in 1..MaxMessages :
       WF_vars(\E how \in ImplReturns :
                 c \in DOMAIN calls /\ processPendingMessagesImpl_return(c, how))

SpecPassFair == SpecPass /\ FairPass

\* ------------------------------------------------------------------------
\* SpecQueue: reports of two senders for two addresses, the queue worker
\* and the outcomes of submitRequest, at one instant of the clock.
\* ------------------------------------------------------------------------
QueueBatches ==
  {Batch("hay basura en pasteur 415", 0,
         <<Candidate("pasteur 415", "recoleccion", Null, Null, Null)>>,
         Null, Null),
   Batch("Hay basura en Perón 1200", 0,
         <<Candidate("Perón 1200", "recoleccion", Null, Null, Null)>>,
         Null, Null),
   Batch("si", 0, <<>>, "Pasteur 415", "recoleccion")}

QueueResults ==
  {Result(TRUE, TRUE, FALSE, Null, Null, FALSE),
   Result(FALSE, FALSE, TRUE, "schedule", Null, FALSE),
   Result(FALSE, FALSE, FALSE, Null, "login failed", FALSE),
   Result(FALSE, FALSE, FALSE, Null, Null, TRUE)}

NextQueue ==
  \/ \E s \in Senders, batch \in QueueBatches : Impl(s, batch)
  \/ \E c \in submits, result \in QueueResults, sendThrows, catchThrows \in BOOLEAN :
       submitRequest_return(c, result, sendThrows, catchThrows)
  \/ \E w \in workers : processQueue_loop(w)

SpecQueue == Init /\ [][NextQueue]_vars

\* ------------------------------------------------------------------------
\* SpecRetry: one report and everything that can happen to its job while
\* the clock runs: failures, retry timers, the terminal failure.  The job
\* is alone in the queue, so the worker finds the queue empty when
\* submitRequest returns and never reaches its 2-second delay.
\* ------------------------------------------------------------------------
RetryBatches ==
  {Batch("hay basura en pasteur 415", 0,
         <<Candidate("pasteur 415", "recoleccion", Null, Null, Null)>>,
         Null, Null)}

RetryResults ==
  {Result(TRUE, TRUE, FALSE, Null, Null, FALSE),
   Result(FALSE, FALSE, FALSE, Null, "login failed", FALSE),
   Result(FALSE, FALSE, FALSE, Null, Null, TRUE)}

NextRetry ==
  \/ \E batch \in RetryBatches : passLog = {} /\ Impl("s1", batch)
  \/ \E c \in submits, result \in RetryResults, sendThrows, catchThrows \in BOOLEAN :
       submitRequest_return(c, result, sendThrows, catchThrows)
  \/ \E t \in scheduledRetries : scheduleRetry_fire(t)
  \/ \E d \in TimerSteps \cup WindowSteps : Tick(d)

SpecRetry == Init /\ [][NextRetry]_vars

\* ------------------------------------------------------------------------
\* SpecErrors: one job and every error text the form can answer with, a
\* needsInfo answer, the retries and the clock.
\* ------------------------------------------------------------------------
ErrorsResults ==
  {Result(TRUE, TRUE, FALSE, Null, Null, FALSE),
   Result(FALSE, FALSE, TRUE, "schedule", Null, FALSE)}
  \cup {Result(FALSE, FALSE, FALSE, Null, e, FALSE) : e \in Errors \cup {Null}}

NextErrors ==
  \/ \E batch \in RetryBatches : passLog = {} /\ Impl("s1", batch)
  \/ \E c \in submits, result \in ErrorsResults :
       submitRequest_return(c, result, FALSE, FALSE)
  \/ \E t \in scheduledRetries : scheduleRetry_fire(t)
  \/ \E d \in TimerSteps : Tick(d)

SpecErrors == Init /\ [][NextErrors]_vars

\* ------------------------------------------------------------------------
\* SpecDedup: the same candidate reported twice, the second time at any
\* moment of the first job's life: queued, failed, waiting for its first
\* retry, retried, done.  The clock runs as far as the short window.
\* ------------------------------------------------------------------------
DedupResults ==
  {Result(TRUE, TRUE, FALSE, Null, Null, FALSE),
   Result(FALSE, FALSE, FALSE, Null, "login failed", FALSE)}

NextDedup ==
  \/ \E s \in Senders, batch \in RetryBatches :
       Cardinality(passLog) < 2 /\ Impl(s, batch)
  \/ \E c \in submits, result \in DedupResults, sendThrows, catchThrows \in BOOLEAN :
       submitRequest_return(c, result, sendThrows, catchThrows)
  \/ \E w \in workers : processQueue_loop(w)
  \/ \E t \in scheduledRetries : scheduleRetry_fire(t)
  \/ \E d \in WindowSteps : Tick(d)

SpecDedup == Init /\ [][NextDedup]_vars

\* ------------------------------------------------------------------------
\* SpecConv: the conversation of one sender: a manteros report without
\* schedule or a vehicle report with one or two photos, with or without
\* the plate and the time read by the extractor, followed by replies.  The
\* extractor finds no request in a reply.  Submissions succeed.
\* ------------------------------------------------------------------------
ConvBatches ==
  {Batch("Manteros en Pasteur 415", 1,
         <<Candidate("Pasteur 415", "manteros", Null, Null, Null)>>, Null, Null)}
  \cup {Batch("Auto mal estacionado en Pasteur 415", n,
               <<Candidate("Pasteur 415", VEHICLE, Null, c[1], c[2])>>, Null, Null) :
          n \in 1..2,
          c \in {<<Null, Null>>, <<"AB123CD", Null>>, <<"AB123CD", "14:30">>}}
  \cup {Batch(text, 0, <<>>, Null, Null) :
          text \in {"si", "AB123CD", "14:30", "de lunes a viernes de 10 a 18",
                    "los manteros estan de 10 a 18"}}
  \cup {Batch(Null, 1, <<>>, Null, Null)}

ConvResults == {Result(TRUE, TRUE, FALSE, Null, Null, FALSE)}

NextConv ==
  \/ \E batch \in ConvBatches : Impl("s1", batch)
  \/ \E c \in submits, result \in ConvResults :
       submitRequest_return(c, result, FALSE, FALSE)

SpecConv == Init /\ [][NextConv]_vars

\* ------------------------------------------------------------------------
\* SpecSupersede: a report without photo for "Corrientes 1200" whose
\* submission comes back asking for a photo, then batches with a photo that
\* name "Callao 500": in the caption of the photo, in a sentence captioning
\* it, or in a text message followed by the photo (text Null: the last
\* message of the batch is the photo).
\* ------------------------------------------------------------------------
SupersedeBatches ==
  {Batch("Basura en Corrientes 1200", 0,
         <<Candidate("Corrientes 1200", "recoleccion", Null, Null, Null)>>,
         Null, Null)}
  \cup {Batch(text, 1,
              <<Candidate("Callao 500", "recoleccion", Null, Null, Null)>>,
              Null, Null) : text \in {"Basura en Callao 500", "Callao 500", Null}}

SupersedeResults ==
  {Result(TRUE, TRUE, FALSE, Null, Null, FALSE),
   Result(FALSE, FALSE, TRUE, "photo", Null, FALSE),
   Result(FALSE, FALSE, FALSE, Null, "falta la foto", FALSE)}

NextSupersede ==
  \/ \E s \in Senders, batch \in SupersedeBatches : Impl(s, batch)
  \/ \E c \in submits, result \in SupersedeResults :
       submitRequest_return(c, result, FALSE, FALSE)
  \/ \E w \in workers : processQueue_loop(w)

SpecSupersede == Init /\ [][NextSupersede]_vars

\* ------------------------------------------------------------------------
\* SpecFields: a photo captioned with an address only, for which the bot
\* asks what the problem is; the answers that name the type of report; the
\* answer to the schedule question; a submitter that accepts the draft or
\* asks for the schedule itself.
\* ------------------------------------------------------------------------
FieldsBatches ==
  {Question("Pasteur 415", "Pasteur 415", 1, Null,
            Candidate(Null, Null, Null, Null, Null)),
   Batch("es un puesto de diarios", 0, <<>>, Null, "puesto_diarios"),
   Batch("hay manteros", 0, <<>>, Null, "manteros"),
   Batch("de lunes a viernes de 10 a 18", 0, <<>>, Null, "recoleccion")}

FieldsResults ==
  {Result(TRUE, TRUE, FALSE, Null, Null, FALSE),
   Result(FALSE, FALSE, FALSE, Null, "falta el horario", FALSE)}

NextFields ==
  \/ \E s \in Senders, batch \in FieldsBatches : Impl(s, batch)
  \/ \E c \in submits, result \in FieldsResults :
       submitRequest_return(c, result, FALSE, FALSE)

SpecFields == Init /\ [][NextFields]_vars

\* ------------------------------------------------------------------------
\* SpecCandidates: batches of one or two candidates of every kind -- a
\* complete one, two manteros without schedule, a puesto without situation
\* type, a vehicle -- sent with one photo, the second batch possibly after
\* the first one's jobs were recorded.
\* ------------------------------------------------------------------------
SampleCandidates ==
  {Candidate("Perón 1200", "recoleccion", Null, Null, Null),
   Candidate("Corrientes 1200", "recoleccion", Null, Null, Null),
   Candidate("Pasteur 415", "manteros", Null, Null, Null),
   Candidate("Callao 500", "manteros", Null, Null, Null),
   Candidate("Pasteur 415", "puesto_diarios", Null, Null, Null),
   Candidate("Corrientes 1200", VEHICLE, Null, "AB123CD", "14:30")}

CandidatesBatches ==
  {Batch("Manteros en Pasteur 415", 1, <<a>>, Null, Null) :
     a \in SampleCandidates}
  \cup {Batch("Manteros en Pasteur 415", 1, <<ab[1], ab[2]>>, Null, Null) :
          ab \in {x \in SampleCandidates \X SampleCandidates : x[1] # x[2]}}

CandidatesResults == {Result(TRUE, TRUE, FALSE, Null, Null, FALSE)}

NextCandidates ==
  \/ \E batch \in CandidatesBatches :
       Cardinality(passLog) < 2 /\ Impl("s1", batch)
  \/ \E c \in submits, result \in CandidatesResults :
       submitRequest_return(c, result, FALSE, FALSE)
  \/ \E w \in workers : processQueue_loop(w)

SpecCandidates == Init /\ [][NextCandidates]_vars

\* ------------------------------------------------------------------------
\* SpecStartup: a sender's report is handled and recorded, or not; the
\* process starts again and scans the sender's recent messages, in which
\* the extraction finds one or two candidates of every kind; the jobs go
\* through the worker and the sender answers the question asked.
\* ------------------------------------------------------------------------
StartupBatches ==
  {Batch("Hay basura en Perón 1200", 1,
         <<Candidate("Perón 1200", "recoleccion", Null, Null, Null)>>,
         Null, Null),
   Batch("si", 0, <<>>, Null, Null)}

NextStartup ==
  \/ \E batch \in StartupBatches : Impl("s1", batch)
  \/ \E batch \in CandidatesBatches : checkPastMessages("s1", batch)
  \/ \E c \in submits, result \in CandidatesResults :
       submitRequest_return(c, result, FALSE, FALSE)
  \/ \E w \in workers : processQueue_loop(w)

SpecStartup == Init /\ [][NextStartup]_vars

\* ------------------------------------------------------------------------
\* SpecCorrection: two senders report, and each may correct the address of
\* the report while the job is queued behind the other sender's job, while
\* it is being submitted, or after it is done.
\* ------------------------------------------------------------------------
CorrectionBatches ==
  {Batch("hay basura en pasteur 415", 0,
         <<Candidate("pasteur 415", "recoleccion", Null, Null, Null)>>,
         Null, Null),
   Batch("Hay basura en Perón 1200", 0,
         <<Candidate("Perón 1200", "recoleccion", Null, Null, Null)>>,
         Null, Null),
   Correction("no, es Pasteur 451", "Pasteur 451")}

CorrectionResults == {Result(TRUE, TRUE, FALSE, Null, Null, FALSE)}

NextCorrection ==
  \/ \E s \in Senders, batch \in CorrectionBatches : Impl(s, batch)
  \/ \E c \in submits, result \in CorrectionResults :
       submitRequest_return(c, result, FALSE, FALSE)
  \/ \E w \in workers : processQueue_loop(w)

SpecCorrection == Init /\ [][NextCorrection]_vars

\* ------------------------------------------------------------------------
\* SpecPost: reports with a photo that the extraction marked for posting on
\* X (postToX: true).  The submitter answers success, with or without a
\* solicitud number, and the poster does any of the things it can do; the
\* success notice itself may fail to be sent.
\* ------------------------------------------------------------------------
PostBatches ==
  {Batch("hay basura en pasteur 415", 1,
         <<[Candidate("pasteur 415", "recoleccion", Null, Null, Null)
              EXCEPT !.postToX = TRUE]>>,
         Null, Null),
   Batch("Hay basura en Perón 1200", 1,
         <<[Candidate("Perón 1200", "recoleccion", Null, Null, Null)
              EXCEPT !.postToX = TRUE]>>,
         Null, Null)}

PostResults ==
  {Posting(Result(TRUE, hasNumber, FALSE, Null, Null, FALSE), x) :
     hasNumber \in BOOLEAN, x \in XResults}

NextPost ==
  \/ \E s \in Senders, batch \in PostBatches :
       Cardinality(passLog) < 2 /\ Impl(s, batch)
  \/ \E c \in submits, result \in PostResults, sendThrows \in BOOLEAN :
       submitRequest_return(c, result, sendThrows, FALSE)
  \/ \E w \in workers : processQueue_loop(w)
  \/ \E t \in scheduledRetries : scheduleRetry_fire(t)
  \/ \E d \in TimerSteps : Tick(d)

SpecPost == Init /\ [][NextPost]_vars

\* ------------------------------------------------------------------------
\* SpecPhotos: a vehicle report with two photos, plate and time, confirmed
\* by the sender and submitted with its photos list; the submission
\* succeeds with or without a solicitud number, or fails with an access
\* error until the retries are used up.
\* ------------------------------------------------------------------------
PhotosBatches ==
  {Batch("Auto mal estacionado en Pasteur 415", 2,
         <<Candidate("Pasteur 415", VEHICLE, Null, "AB123CD", "14:30")>>,
         Null, Null),
   Batch("si", 0, <<>>, Null, Null)}

PhotosResults ==
  {Result(TRUE, TRUE, FALSE, Null, Null, FALSE),
   Result(TRUE, FALSE, FALSE, Null, Null, FALSE),
   Result(FALSE, FALSE, TRUE, "schedule", Null, FALSE),
   Result(FALSE, FALSE, FALSE, Null, "login failed", FALSE)}

NextPhotos ==
  \/ \E batch \in PhotosBatches : Impl("s1", batch)
  \/ \E c \in submits, result \in PhotosResults :
       submitRequest_return(c, result, FALSE, FALSE)
  \/ \E t \in scheduledRetries : scheduleRetry_fire(t)
  \/ \E d \in TimerSteps : Tick(d)

SpecPhotos == Init /\ [][NextPhotos]_vars

\* ------------------------------------------------------------------------
\* SpecServer: three requests for two normalized addresses reach the
\* submission server at any moments; submitSolicitud returns or throws in
\* every way; the clock passes the five minutes of recentSubmissions.
\* ------------------------------------------------------------------------
NextServer ==
  \/ \E address \in ServerAddresses : post(address)
  \/ post_afterLock
  \/ \E p \in DOMAIN posts : \E result \in submitSolicitud(p) :
       submitSolicitud_return(p, result)
  \/ \E p \in DOMAIN posts : closeBrowser_return(p)
  \/ \E p \in DOMAIN posts : post_retry(p)
  \/ now = 0 /\ readyPosts = <<>> /\ Tick(SUBMISSION_DEDUP_MS)

SpecServer == Init /\ [][NextServer]_vars

\* ------------------------------------------------------------------------
\* C1  Two processing passes (_processPendingMessagesImpl) for the same
\* sender never execute concurrently, for any number of
\* processPendingMessages calls issued while a pass is running.
\* ------------------------------------------------------------------------
C1_PassesSerialized ==
  \A c1, c2 \in DOMAIN calls :
    (c1 # c2 /\ calls[c1].sender = calls[c2].sender)
      => ~(calls[c1].pc = "running" /\ calls[c2].pc = "running")

\* ------------------------------------------------------------------------
\* C2  The RequestQueue has at most one active worker loop: a processQueue()
\* call made while one is running dequeues nothing, and the worker passes
\* jobs to submit one at a time in the order they were pushed, whichever
\* sender they belong to.
\* ------------------------------------------------------------------------
C2_SingleWorkerFIFO ==
  /\ Cardinality(workers) <= 1
  /\ Cardinality({c \in submits : c.caller = "worker"}) <= 1
  /\ workers # {} => isProcessingQueue
  /\ workerLog \o [i \in DOMAIN requestQueue |-> requestQueue[i].id] = pushLog

\* A processQueue() call met the guard while the worker was busy, and the
\* worker has submitted jobs of both senders.
C2_Witness ==
  /\ guardHits
  /\ workers # {}
  /\ \A s \in Senders : \E f \in fetchLog :
        f.caller = "worker" /\ f.request.senderId = s

\* ------------------------------------------------------------------------
\* C3  At no time are two calls to the external submitter in progress at
\* once, whichever path starts them: the queue worker, a retry timer or
\* the direct re-submission after an awaited field is answered.
\* ------------------------------------------------------------------------
C3_OneSubmitAtATime ==
  Cardinality({c \in submits : c.pc = "fetch"}) <= 1

\* ------------------------------------------------------------------------
\* C4  No exception escapes from submitRequest into the queue worker loop,
\* whatever the submitter or the chat transport does; isProcessingQueue is
\* never left set without a worker loop that will reset it.
\* ------------------------------------------------------------------------
C4_NoEscapeIntoWorker ==
  /\ "worker" \notin escapes
  /\ isProcessingQueue => workers # {}

\* ------------------------------------------------------------------------
\* C7  Submitting a candidate (address A, type T) twice within the
\* freshness window yields exactly one persisted record for that key, for
\* every interleaving of the second attempt with the first job's queueing,
\* failure, scheduled retries and success.
\* ------------------------------------------------------------------------
C7_OneRecordPerKey ==
  \A i, j \in DOMAIN reportsLog :
    (i < j /\ processedKey(reportsLog[i]) = processedKey(reportsLog[j]))
      => reportsLog[j].timestamp - reportsLog[i].timestamp >= twelveHours

\* ------------------------------------------------------------------------
\* C8 (as amended)  A failed attempt with retryCount 0, 1 or 2 schedules a
\* retry 5, 50 or 500 minutes later respectively; the terminal-failure
\* notice is sent exactly when the attempt with retryCount 3 (the third
\* retry, the fourth failure in a row) fails, and that failure schedules
\* no retry; no attempt is made with a retryCount above 3.
\* ------------------------------------------------------------------------
C8_RetryBackoff ==
  /\ \A t \in scheduledRetries :
        /\ t.request.retryCount \in 0..2
        /\ t.due = t.armed + <<5, 50, 500>>[t.request.retryCount + 1]
        /\ \E f \in failLog :
              f.job = t.request.id /\ f.retryCount = t.request.retryCount
  /\ \A f \in failLog : f.final <=> f.retryCount = 3
  /\ \A f \in fetchLog : f.request.retryCount <= 3

\* One job has failed four times in a row, at retryCount 0, 1, 2 and 3.
C8_Witness ==
  \E f \in failLog :
    /\ f.final
    /\ \A rc \in 0..2 : \E g \in failLog :
          g.job = f.job /\ g.retryCount = rc

\* C8 as written: after the third failure (the attempt with retryCount 2)
\* the terminal-failure message is sent and no further retry is scheduled.
C8_TerminalAfterThirdFailure ==
  \A f \in failLog : f.retryCount = 2 => f.final

\* ------------------------------------------------------------------------
\* C9  A vehiculo_mal_estacionado candidate is never passed to the submitter
\* until a second photo, a patente, an infractionTime and an explicit
\* affirmative patente confirmation have all been collected, whichever
\* field was first found missing and whichever path resolves it.
\* ------------------------------------------------------------------------
C9_VehicleGating ==
  \A f \in fetchLog :
    f.request.reportType = VEHICLE =>
      /\ Len(photosToSend(f.request)) >= 2
      /\ f.request.patente # Null
      /\ f.request.infractionTime # Null
      /\ f.request.confirmed

\* ------------------------------------------------------------------------
\* C10  A manteros candidate missing schedule transitions the sender to
\* AwaitingField(schedule); the next free-text reply resolves it: the state
\* is cleared and exactly one submission is made for that draft, carrying
\* the reply text as its schedule.
\* ------------------------------------------------------------------------
C10_ScheduleChaining ==
  /\ \A p \in passLog :
        (/\ p.state = NoRequest
         /\ \E i \in DOMAIN p.requests :
              /\ p.requests[i].reportType = "manteros"
              /\ p.requests[i].schedule = Null)
          => p.info.awaitingField = "schedule"
  /\ \A p \in passLog :
        (/\ p.state.awaitingField = "schedule"
         /\ p.state.reportType = "manteros"
         /\ p.text # Null /\ p.nPhotos = 0)
          => /\ p.outcome = "submit"
             /\ p.submit.id = p.state.id
             /\ p.submit.schedule = p.text
             /\ p.info = NoRequest
  /\ \A p, q \in passLog :
        (p.outcome = "submit" /\ q.outcome = "submit"
           /\ p.submit.id = q.submit.id /\ p.submit.reportType = "manteros")
          => p = q

\* ------------------------------------------------------------------------
\* C5  N messages of one sender arriving faster than the debounce interval
\* produce exactly one processing pass, and the batch of that pass contains
\* all N messages.  (burst of a call: the messages that arrived while a
\* timer of the sender was pending, up to the timer that started the call.)
\* ------------------------------------------------------------------------
implStarted(c) == calls[c].pc \in {"running", "finally", "done"}

C5_BurstInOnePass ==
  /\ \A c \in DOMAIN calls :
       implStarted(c) => calls[c].burst \subseteq Range(calls[c].batch)
  /\ \A c1, c2 \in DOMAIN calls :
       c1 # c2 => calls[c1].burst \cap calls[c2].burst = {}

\* ------------------------------------------------------------------------
\* C6  For each sender at most one debounce timer is armed at any time: a
\* message arriving before the armed timer expires cancels it, also when
\* the message arrives while a pass is running and the pass then deletes
\* the sender's PendingBatch.
\* ------------------------------------------------------------------------
C6_OneTimerPerSender ==
  \A s \in Senders : Cardinality(armedOf(s)) <= 1

\* ------------------------------------------------------------------------
\* C11  While AwaitingField(photo) is open for "Corrientes 1200", a batch
\* with a photo and the address "Callao 500" abandons the old draft: the
\* pass takes it for a new report and hands no draft for "Corrientes 1200"
\* to the submitter.
\* ------------------------------------------------------------------------
C11_SupersedeAbandons ==
  \A p \in passLog :
    (/\ p.state.awaitingField = "photo"
     /\ p.state.address = "Corrientes 1200"
     /\ p.nPhotos > 0)
      => /\ p.superseded
         /\ p.submit.address # "Corrientes 1200"

\* ------------------------------------------------------------------------
\* C12  No draft reaches the submitter unless every field its reportType
\* requires is present: schedule for manteros, situationType for
\* puesto_diarios and puesto_flores, two photos, patente and
\* infractionTime for vehiculo_mal_estacionado.
\* ------------------------------------------------------------------------
C12_RequiredFields ==
  \A f \in fetchLog :
    LET r == f.request IN
    /\ r.reportType = "manteros" => r.schedule # Null
    /\ r.reportType \in {"puesto_diarios", "puesto_flores"}
         => r.situationType # Null
    /\ r.reportType = VEHICLE
         => /\ Len(photosToSend(r)) >= 2
            /\ r.patente # Null
            /\ r.infractionTime # Null

\* ------------------------------------------------------------------------
\* C13  Every candidate of a batch with a valid address that is no
\* duplicate and fails the required-field check of its type is kept: after
\* the pass it is the sender's AwaitingField state or it is on the sender's
\* vehicle queue.
\* ------------------------------------------------------------------------
C13_CandidatesKept ==
  \A p \in passLog : \A i \in DOMAIN p.kinds :
    LET req == p.requests[i] IN
    p.kinds[i] \in {"needsSchedule", "needsSituationType", "needsVehicleInfo"}
      => \/ /\ p.info.awaitingField # Null
            /\ p.info.address = req.address
            /\ p.info.reportType = req.reportType
         \/ \E j \in DOMAIN p.vehicles :
              /\ p.vehicles[j].address = req.address
              /\ p.vehicles[j].reportType = req.reportType

\* ------------------------------------------------------------------------
\* C14  On a correction with a correctedAddress: a job of the sender that
\* is still in the queue has its address changed in place and no job is
\* added, whether or not the worker is busy; when the sender's job has been
\* dequeued and is being submitted, a second job with the corrected address
\* is enqueued; when the sender has no job, the queue is unchanged.
\* ------------------------------------------------------------------------
C14_Correction ==
  \A p \in passLog :
    p.outcome \in {"corrected", "correctedLate", "correctedNone"} =>
      LET idx == findIndex(p.queue, p.sender) IN
      /\ idx # 0 =>
            /\ p.push = <<>>
            /\ p.base = [p.queue EXCEPT ![idx].address = "Pasteur 451"]
      /\ (idx = 0 /\ p.inFlight) =>
            /\ p.base = p.queue
            /\ Len(p.push) = 1
            /\ p.push[1].address = "Pasteur 451"
      /\ (idx = 0 /\ ~p.inFlight) =>
            /\ p.base = p.queue
            /\ p.push = <<>>

\* C15: once a candidate with key K was pushed by the push loop, a later
\* candidate with the same key K handled less than QUEUE_DEDUP_WINDOW_MS
\* afterwards is not pushed, unless clearFromDedup deleted K in between.
\* Two pushes of one key by the push loop are therefore either at least the
\* window apart or separated by a clear of that key.
pushedByLoop(p) == p.outcome \notin {"corrected", "correctedLate", "correctedNone"}

C15_ShortWindowBlocks ==
  \A p, q \in passLog :
    \A i \in DOMAIN p.push, j \in DOMAIN q.push :
      ( /\ pushedByLoop(p) /\ pushedByLoop(q)
        /\ p.n < q.n \/ (p.n = q.n /\ i < j)
        /\ addrKey(p.push[i]) = addrKey(q.push[j])
        /\ q.at - p.at < QUEUE_DEDUP_WINDOW_MS )
      => \E r \in returnLog :
            r.cleared = addrKey(p.push[i]) /\ p.n <= r.after /\ r.after < q.n

\* A second report of a pushed key, within the window and before the log
\* has a record of it (it is classified as new), pushed nothing.
C15_Witness ==
  \E p, q \in passLog :
    /\ p.n < q.n /\ p.push # <<>> /\ pushedByLoop(p)
    /\ q.kinds = <<"new">> /\ q.push = <<>>
    /\ addrKey(q.requests[1]) = addrKey(p.push[1])
    /\ q.at - p.at < QUEUE_DEDUP_WINDOW_MS
    /\ reportsLog = <<>>


\* C16: after a submission of a job for address A failed with an access
\* error or an exception, the short window holds no entry under the key of
\* that job (whatever the address, plate included), and a retry is armed
\* as long as the job has retries left.
C16_ClearedAfterFailure ==
  \A r \in returnLog :
    (r.branch = "access" \/ r.caught)
      => /\ ~r.keyLeft
         /\ r.request.retryCount < MaxRetries => r.timers # {}

\* C17: when submit answers needsInfo(field, question), the call leaves an
\* AwaitingField state for the job's sender holding that field and question,
\* deletes no photo file, arms no retry timer, and the job is not in the
\* request queue.
C17_NeedsInfoParks ==
  \A r \in returnLog :
    r.branch = "needsInfo"
      => /\ r.parked.id = r.request.id
         /\ r.parked.awaitingField = r.field
         /\ r.parked.awaitingQuestion = "question"
         /\ r.unlink = {}
         /\ r.timers = {}
         /\ ~r.queued

\* C18: when a submission succeeded for a job with postToX set and the
\* poster was called, then whatever the poster did (success, skipped,
\* failure, rejection) the call ends as a success: the notice was sent, the
\* catch block did not run, no retry timer is armed, no AwaitingField state
\* is opened, and the job's photo file is removed.
C18_PosterNeverFails ==
  \A r \in returnLog :
    r.posted
      => /\ r.notified /\ ~r.caught /\ ~r.escaped
         /\ r.timers = {} /\ ~r.final
         /\ r.state = NoRequest
         /\ r.request.photo # NoPhoto => r.request.photo \in r.unlink

\* A successful submission marked for X whose poster rejected, and one
\* whose poster reported a failure, both with a photo to clean up.
C18_Witness ==
  /\ \E r \in returnLog :
       r.posted /\ r.x = "throws" /\ r.request.photo # NoPhoto
  /\ \E r \in returnLog :
       r.posted /\ r.x = "failure" /\ r.request.photo # NoPhoto

\* C19, as stated: a pass whose extraction holds no request and has
\* shouldRespond = false sends nothing to the chat, pushes nothing on the
\* request queue, submits nothing, deletes the sender's batch, and leaves
\* the sender's conversation state as the pass found it.
silentDiscard(p) ==
  /\ ~p.responded
  /\ p.push = <<>> /\ p.base = p.queue /\ p.submit = NoRequest
  /\ ~p.keepBatch

lockHolderAlive ==
  \A s \in Senders :
    LET c == userProcessingLocks[s] IN
    c # 0 => calls[c].sender = s /\ calls[c].pc \in {"running", "finally"}

waitsForOwnSender ==
  \A w \in DOMAIN calls :
    calls[w].pc = "awaitLock" => calls[calls[w].awaited].sender = calls[w].sender

waiting(c) == c \in DOMAIN calls /\ calls[c].pc = "awaitLock"

ended(c) == c \in DOMAIN calls /\ calls[c].pc = "done"

C20_LockReleased ==
  /\ [](lockHolderAlive /\ waitsForOwnSender)
  /\ \A c \in 1..MaxMessages : waiting(c) ~> ended(c)
  /\ <>[](\A s \in Senders : userProcessingLocks[s] = 0)

\* Two calls of one sender wait for the same lock while a call of the
\* other sender is running its pass.
C20_Witness ==
  \E v, w \in DOMAIN calls :
    /\ v # w /\ waiting(v) /\ waiting(w) /\ calls[v].awaited = calls[w].awaited
    /\ \E c \in DOMAIN calls :
         calls[c].pc = "running" /\ calls[c].sender # calls[v].sender

\* C21: a pass that resolved the awaited field and re-submitted the draft
\* leaves no pendingInfoRequests entry for that draft, a pass that queued
\* the requests of its batch leaves no entry for any of the jobs it pushed,
\* and both delete the sender's pendingMessages entry.
C21_EntriesDeleted ==
  \A p \in passLog :
    /\ p.submit # NoRequest => p.info.id # p.submit.id /\ ~p.keepBatch
    /\ p.push # <<>>
         => /\ ~p.keepBatch
            /\ \A i \in DOMAIN p.push : p.info.id # p.push[i].id

\* A pass that answered an open question and re-submitted its draft, and a
\* pass that pushed a job.
C21_Witness ==
  /\ \E p \in passLog :
       p.state # NoRequest /\ p.submit # NoRequest /\ p.submit.id = p.state.id
  /\ \E p \in passLog : p.push # <<>>

\* C22: a photo file that a job in the request queue, a scheduled retry, a
\* draft of a vehicle queue or a parked conversation state still refers to
\* has not been unlinked.
refs(r) == ({r.photo} \ {NoPhoto}) \cup Range(r.photos)

refsOfAll(q) == UNION {refs(q[i]) : i \in DOMAIN q}

liveRefs ==
  refsOfAll(requestQueue)
    \cup UNION {refs(t.request) : t \in scheduledRetries}
    \cup UNION {refsOfAll(vehiclePatenteQueue[s]) : s \in Senders}
    \cup UNION {refs(pendingInfoRequests[s]) : s \in Senders}

C22_NoLiveRefDeleted == unlinked \cap liveRefs = {}

\* C23: when a job ended in success, with or without a solicitud number, or
\* with its retries used up, every photo file of the job (its photo and all
\* entries of its photos list) has been unlinked; a call that parked the
\* job for more information unlinked none of them.
C23_PhotosCleanedUp ==
  \A r \in returnLog :
    /\ (r.notified /\ r.branch \in {"success", "successNoNumber"}) \/ r.final
         => refs(r.request) \subseteq unlinked
    /\ (r.branch = "needsInfo" /\ ~r.caught) => r.unlink = {}

\* C24, amended: extractRequests makes at most MAX_RETRIES attempts; it
\* goes on to a further attempt only after a retryable error, waiting 5 s
\* after the first and 10 s after the second attempt, and after the third
\* failure it gives up without waiting; a non-retryable error ends the loop
\* at once; and a call that met an error or an unusable response returns
\* shouldRespond = true with a message and no requests.
returnedDegraded ==
  /\ extraction.result.shouldRespond
  /\ extraction.result.requests = <<>>
  /\ extraction.result.response # Null

isSuffix(h, g) ==
  Len(h) <= Len(g) /\ h = SubSeq(g, Len(g) - Len(h) + 1, Len(g))

recorded(s) ==
  LET h == userMessageHistory'[s] IN
  /\ Len(h) <= MAX_HISTORY_PER_USER
  /\ \A i \in DOMAIN h : now' - h[i].timestamp <= MESSAGE_RETENTION_MS
  /\ \E msg \in {h[Len(h)]} : isSuffix(h, Append(userMessageHistory[s], msg))
  /\ \A o \in Senders \ {s} : userMessageHistory'[o] = userMessageHistory[o]

C25_HistoryBounded ==
  [][\A s \in Senders :
       userMessageHistory'[s] # userMessageHistory[s] => recorded(s)]_vars

\* C26: the timer armed by handleMessage carries the extended delay (8 s)
\* exactly when the sender's batch, as it stands after the push, holds at
\* least one message with a photo and no message whose text has a digit;
\* otherwise it carries the base delay (3 s).
C26_DebounceDelay ==
  [][\A t \in debounceTimers' \ debounceTimers :
       LET batch == pendingMessages'[t.sender].messages
           photo == \E i \in DOMAIN batch : batch[i].photo # NoPhoto
           digit == \E i \in DOMAIN batch :
                       batch[i].text \in {"Pasteur 415"}
       IN /\ t.delay \in {3000, 8000}
          /\ t.delay = 8000 <=> (photo /\ ~digit)]_vars

C26_Witness ==
  \E t \in debounceTimers, u \in debounceTimers :
     /\ t.delay = 8000
     /\ Len(pendingMessages[t.sender].messages) = 2
     /\ pendingMessages[t.sender].messages[1].text = "si"
     /\ pendingMessages[t.sender].messages[2].photo # NoPhoto
     /\ u.delay = 3000
     /\ Len(pendingMessages[u.sender].messages) = 1
     /\ pendingMessages[u.sender].messages[1].photo # NoPhoto

\* C27: a candidate with a valid address is classified as a duplicate
\* exactly when the reports log holds a record with the same key
\* (normalized address, report type, and for vehicles the plate) written
\* less than twelve hours ago, and the reference id reported is the one of
\* the most recent such record.
plateOf(r) ==
  IF r.reportType = VEHICLE /\ r.patente # Null
    THEN toUpperCase(r.patente) ELSE Null

sameKey(line, req) ==
  /\ normalizeAddressForComparison(line.address)
       = normalizeAddressForComparison(req.address)
  /\ line.reportType = req.reportType
  /\ plateOf(line) = plateOf(req)

recentRecords(req) ==
  {j \in DOMAIN reportsLog :
     /\ sameKey(reportsLog[j], req)
     /\ now - reportsLog[j].timestamp < twelveHours}

C27_IndexBlocks ==
  [][\A p \in passLog' \ passLog : \A i \in DOMAIN p.kinds :
       LET req == p.requests[i]
           recs == recentRecords(req)
           latest == {j \in recs : \A k \in recs :
                        reportsLog[k].timestamp <= reportsLog[j].timestamp}
       IN isValidAddress(req.address) =>
            /\ p.kinds[i] = "duplicate" <=> recs # {}
            /\ recs # {} =>
                 isRecentDuplicate(req.address, req.reportType,
                                   getProcessedSolicitudes,
                                   req.patente).solicitudNumber
                   \in {reportsLog[j].solicitudNumber : j \in latest}]_vars

\* C28: a pass abandons the sender's open state only when the last message
\* of the batch names an address whose text does not contain the first
\* token of the pending draft's address; a photo sent together with the
\* pending draft's own address is taken as the answer.
C28_SupersedeOnlyOtherAddress ==
  \A p \in passLog :
     p.superseded =>
       /\ p.text # Null
       /\ addressPattern(p.text)
       /\ ~includes(p.text, firstToken(p.state.address))

\* C29: a state is set for a sender only when the sender has no open state,
\* or when the step that sets it has taken the open draft up itself: the
\* new state is the same draft with its next question, or the pass has
\* abandoned the open state as superseded or re-submitted its draft.  No
\* step replaces an open draft by another one.
takenUp(s) ==
  \/ pendingInfoRequests'[s].id = pendingInfoRequests[s].id
  \/ \E p \in passLog' \ passLog :
        /\ p.sender = s
        /\ p.superseded \/ p.submit.id = pendingInfoRequests[s].id

C29_OneQuestionPerSender ==
  [][\A s \in Senders :
       (/\ pendingInfoRequests'[s] # pendingInfoRequests[s]
        /\ pendingInfoRequests'[s] # NoRequest
        /\ pendingInfoRequests[s] # NoRequest) => takenUp(s)]_vars

\* C30: a vehicle draft that a pass has submitted is in the sender's
\* VehicleQueue no longer once the submitting call has ended, and a vehicle
\* draft whose state a pass abandoned as superseded is not left in the
\* queue by that pass; so no draft can come to the head of the queue again.
idsOf(vehicles) == {vehicles[i].id : i \in DOMAIN vehicles}

submitting(id) == \E c \in submits : c.caller = "pass" /\ c.request.id = id

C30_VehicleDraftsOnce ==
  /\ \A p \in passLog :
        (/\ p.state # NoRequest
         /\ p.state.reportType = VEHICLE
         /\ p.submit.id = p.state.id
         /\ ~submitting(p.submit.id))
          => p.submit.id \notin idsOf(vehiclePatenteQueue[p.sender])
  /\ \A p \in passLog :
        (/\ p.state # NoRequest
         /\ p.state.reportType = VEHICLE
         /\ p.superseded)
          => p.state.id \notin idsOf(p.vehicles)

\* C31: the short window works on the key address|reportType[|PLATE]: a new
\* candidate of a pass that queues is pushed unless a candidate with the
\* same normalized address, the same report type and the same plate comes
\* before it in the batch or was pushed less than five minutes ago; a
\* candidate of another report type at the same address does not block it.
sameFullKey(a, b) ==
  /\ normalizeAddressForComparison(a.address)
       = normalizeAddressForComparison(b.address)
  /\ a.reportType = b.reportType
  /\ addrKey(a) = addrKey(b)

C31_WindowKeyHasType ==
  [][\A p \in passLog' \ passLog : \A i \in DOMAIN p.kinds :
       LET req == p.requests[i]
           earlier == \E j \in 1..(i - 1) :
                         p.kinds[j] = "new" /\ sameFullKey(p.requests[j], req)
           recent == \E q \in passLog : \E k \in DOMAIN q.push :
                        /\ sameFullKey(q.push[k], req)
                        /\ now - q.at < QUEUE_DEDUP_WINDOW_MS
       IN (/\ p.outcome = "queue"
           /\ p.kinds[i] = "new"
           /\ ~earlier
           /\ ~recent)
            => \E k \in DOMAIN p.push :
                  /\ p.push[k].address = req.address
                  /\ p.push[k].reportType = req.reportType]_vars

\* C32: the awaitingField of every open state is one of the nine field
\* tags, whichever path opened the state.
FieldTags ==
  {"address", "reportType", "photo", "photos", "schedule", "situationType",
   "patente", "infractionTime", "patenteConfirmation"}

C32_AwaitingFieldIsTag ==
  \A s \in Senders :
     pendingInfoRequests[s] # NoRequest
       => pendingInfoRequests[s].awaitingField \in FieldTags

\* C33: while the sender's state awaits the photo, a batch without an image
\* whose last text says that the photo was sent (ya, envi, mand, arriba,
\* antes), met when the sender's history holds no photo whose file still
\* exists, makes the pass ask again and end: the state and its draft are
\* unchanged, no extraction is run, nothing is submitted or pushed.
noLedgerPhoto(s) == photosOf(userMessageHistory[s]) \ unlinked = {}

askedAgain(p) ==
  /\ p.outcome = "reask"
  /\ p.info = p.state
  /\ p.requests = <<>>
  /\ p.kinds = <<>>
  /\ p.submit = NoRequest
  /\ p.push = <<>>

awaitsPhoto(p) ==
  /\ p.state # NoRequest
  /\ p.state.awaitingField = "photo"
  /\ ~p.superseded
  /\ p.nPhotos = 0

C33_ReaskWhenSaidSent ==
  [][\A p \in passLog' \ passLog :
       (/\ awaitsPhoto(p)
        /\ noLedgerPhoto(p.sender)
        /\ p.text \in {"ya la mandé", "ya está"}) => askedAgain(p)]_vars

\* C33 as stated: every batch without an image, whatever its text.
C33_ReaskWithoutPhoto ==
  [][\A p \in passLog' \ passLog :
       (awaitsPhoto(p) /\ noLedgerPhoto(p.sender)) => askedAgain(p)]_vars

C33_Witness ==
  \E p \in passLog :
     /\ awaitsPhoto(p)
     /\ p.text = "ya la mandé"
     /\ askedAgain(p)
     /\ pendingInfoRequests[p.sender] = p.state

\* C34: a pass that meets a state awaiting patenteConfirmation and a reply
\* "si" submits the draft with its patente as it was; a reply that is a
\* plate ("AB123CD") submits it with that plate.  In both cases the draft
\* goes to the form with the photos and the infractionTime it had, no state
\* is left open by the pass, the call does not stop at the two-photos
\* check, and no draft is submitted by two such passes.
confirming(p) ==
  /\ p.state # NoRequest
  /\ p.state.awaitingField = "patenteConfirmation"
  /\ ~p.superseded
  /\ p.nPhotos = 0
  /\ p.text \in {"si", "AB123CD"}

C34_ConfirmationSubmits ==
  /\ \A p \in passLog :
        confirming(p) =>
          /\ p.outcome = "submit"
          /\ p.submit.id = p.state.id
          /\ p.submit.patente = IF p.text = "si" THEN p.state.patente
                                ELSE "AB123CD"
          /\ p.submit.photos = p.state.photos
          /\ p.submit.infractionTime = p.state.infractionTime
          /\ p.submit.address = p.state.address
          /\ p.info = NoRequest
          /\ Len(photosToSend(p.submit)) >= 2
  /\ \A p, q \in passLog :
        (confirming(p) /\ confirming(q) /\ p.submit.id = q.submit.id) => p = q

C34_Witness ==
  /\ \E p \in passLog :
        /\ confirming(p)
        /\ p.text = "AB123CD"
        /\ p.state.patente = "XY987ZW"
        /\ p.submit.patente = "AB123CD"
  /\ \E i \in DOMAIN reportsLog : reportsLog[i].patente = "AB123CD"

\* C35: the start-up scan follows the rules of the live path: a job it
\* pushes is of a candidate the live classification calls new (valid
\* address, not blocked by the persisted index, every required field of
\* its report type present), no two jobs it pushes have the same
\* short-window key, and a candidate that needs more information is parked
\* in the sender's state or vehicle queue.
isOf(r, req) ==
  /\ r.address = req.address
  /\ r.reportType = req.reportType
  /\ r.patente = req.patente

C35_StartupLikeLive ==
  \A p \in passLog :
     p.outcome = "startup" =>
       /\ \A k \in DOMAIN p.push :
             \E i \in DOMAIN p.requests :
                isOf(p.push[k], p.requests[i]) /\ p.kinds[i] = "new"
       /\ \A k, l \in DOMAIN p.push :
             addrKey(p.push[k]) = addrKey(p.push[l]) => k = l
       /\ \A i \in DOMAIN p.requests :
             p.kinds[i] \in {"needsSchedule", "needsSituationType",
                             "needsVehicleInfo"}
               => \/ isOf(p.info, p.requests[i])
                  \/ \E k \in DOMAIN p.vehicles :
                        isOf(p.vehicles[k], p.requests[i])

\* C36: no inbound message is lost: a message that was appended to a
\* sender's PendingBatch either is still in the sender's batch, or is in
\* the batch a processing pass read; a message that arrives while a pass of
\* its sender is running is not thrown away with the batch the pass
\* deletes at its end.
buffered(m) == \E s \in Senders : m \in Range(pendingMessages[s].messages)

C36_NoMessageLost ==
  \A m \in 1..nextMsg :
     \/ buffered(m)
     \/ \E c \in DOMAIN calls : implStarted(c) /\ m \in Range(calls[c].batch)

\* C37: a retry is scheduled only for a job whose latest attempt did not
\* succeed: the call of submitRequest that received success from the
\* submitter and appended the job's record arms no retry timer, also when
\* sending its success notice throws, and the job is not handed to the
\* submitter again after it.
C37_NoRetryAfterSuccess ==
  /\ \A r \in returnLog : r.csv => r.timers = {}
  /\ \A r \in returnLog, f \in fetchLog :
        (r.csv /\ f.request.id = r.request.id)
          => f.request.retryCount <= r.request.retryCount

\* C38: the retryCount of a job stays within 0..3 and grows by one per
\* scheduled retry; each failure arms at most one retry timer, so that a
\* job has at any time at most one attempt under way or waiting for its
\* timer, and is passed to the submitter at most four times.
attemptsOf(id) ==
  Cardinality({t \in scheduledRetries : t.request.id = id})
    + Cardinality({c \in submits : c.request.id = id})

C38_RetryBudget ==
  /\ \A f \in fetchLog : f.request.retryCount \in 0..MaxRetries
  /\ \A t \in scheduledRetries : t.request.retryCount + 1 \in 1..MaxRetries
  /\ \A r \in returnLog : Cardinality(r.timers) <= 1
  /\ \A f \in fetchLog : attemptsOf(f.request.id) <= 1

\* C39: in the submission server at most one call of submitSolicitud for a
\* normalized address is in progress at any time, whatever the number of
\* concurrent requests for it; and a request that waited for a submission
\* that succeeded returns that submission's result and calls
\* submitSolicitud itself not once.
inProgress(key) ==
  {p \in DOMAIN posts :
     /\ posts[p].pc = "submitSolicitud"
     /\ normalizeAddressForDedup(posts[p].address) = key}

waitedFor(p) == promises[posts[p].awaited]

C39_OneSubmissionPerAddress ==
  /\ \A key \in ServerKeys : Cardinality(inProgress(key)) <= 1
  /\ \A p \in DOMAIN posts :
        (posts[p].awaited # 0 /\ waitedFor(p).success)
          => /\ posts[p].submitted = 0
             /\ posts[p].pc = "done"
                  => posts[p].response = Response(200, waitedFor(p), TRUE)

====
